---- MODULE Spec2Model ----
(***************************************************************************)
(* Disgram: a Telegram -> Discord relay.                                   *)
(*                                                                         *)
(*   webhook.py  the per-channel forwarding worker (scrape, dedup against  *)
(*               Disgram.log, placeholders for gaps, send with retries)    *)
(*   main.py     the supervisor: process table, liveness sweep, zombie     *)
(*               restart, and the API handlers that start/stop jobs        *)
(*   jobs.py     the job registry                                          *)
(*                                                                         *)
(* Specifications sharing the module include:                                *)
(*   SpecSend    sendMessage as a function of its inputs                   *)
(*   SpecWorker  a worker of one channel polling a changing source page    *)
(*   SpecSup     the supervisor loop interleaved with an API handler       *)
(*               thread and with the processes it has spawned              *)
(***************************************************************************)
EXTENDS Integers, Sequences, FiniteSets, Bags, TLC

\* ---------------------------------------------------------------- bounds
MaxSeq == 4         \* highest message number the source channel publishes
MaxCycles == 3      \* polling cycles the worker runs in all
MaxFaults == 1      \* failed scrapes, failed sends and kills in all; failed spawns
PageSize == 3       \* messages the preview page lists
MaxProcs == 3       \* processes the machine lets the supervisor have alive at a time
MaxRequests == 1    \* API requests served in all
MaxPolls == 1       \* polls of a page that lists its messages in any order
MaxLines == 1       \* lines the workers write to the file the supervisor seeds
PipeCap == 8        \* lines the pipe of a worker's standard output holds
MaxCallers == 3     \* threads that call the job registry at once
MaxSeeded == 4      \* lines of the file after which the registry's run is cut

\* ------------------------------------------------------ program constants
max_retries == 5            \* webhook.py: sendMessage / scrapeTelegramMessageBox
retry_delay == 2            \* webhook.py: first backoff delay
max_age_minutes == 6        \* main.py: check_log_freshness

VARIABLES
    \* ---- Disgram.log and the source channel
    log,                    \* Disgram.log: the sequence of lines written to the file
    window,                 \* message numbers the public preview page lists now
    top,                    \* highest number the channel has published so far
    \* ---- webhook.py main(), one copy per worker process
    pc,                     \* where the worker is in main()
    last_processed_number,  \* main: last_processed_number
    msg_log,                \* main: msg_log (links of the previous cycle)
    msg_temp,               \* main: msg_temp (links of this cycle)
    page,                   \* the boxes scrapeTelegramMessageBox returned
    idx,                    \* position of the for loop over the boxes
    missing_number,         \* sendMissingMessages: loop variable
    cycles,                 \* polls made so far
    faults,                 \* faults injected so far
    stdout,                 \* per worker: where print() writes, and how full it is
    \* ---- history (not program state)
    calls,                  \* every invocation of sendMessage, in order
    shown,                  \* numbers some scrape has returned
    prev,                   \* per worker: how its previous cycle ended
    cur,                    \* per worker: what its current cycle has done
    \* ---- one delivery under test (SpecSend)
    dlv,
    \* ---- jobs.py: the registry
    jobs,                   \* JobManager.jobs: the names registered
    job_obj,                \* the Job object made for each name
    \* ---- main.py: the supervisor
    job_processes,          \* job_processes: job name -> list of processes (Popen)
    orphans,                \* processes alive that no handle refers to any more
    age,                    \* minutes since Disgram.log was last modified
    th,                     \* per thread: where it is and its local variables
    requests,               \* API requests taken so far
    sup_faults              \* Popen calls that raised and workers that exited, so far

workerVars == <<pc, last_processed_number, msg_log, msg_temp, page, idx,
                missing_number, cycles, faults>>
histVars == <<calls, shown, prev, cur>>
relayVars == <<window, top, workerVars, histVars, dlv, stdout>>
supVars == <<jobs, job_obj, job_processes, orphans, age, th, requests, sup_faults>>
vars == <<log, relayVars, supVars>>

Workers == {"w1"}
TG_CHANNEL == "chan"        \* the channel the worker serves

\* ------------------------------------------------------------- helpers
Max(S) == CHOOSE x \in S : \A y \in S : y <= x
Min(S) == CHOOSE x \in S : \A y \in S : x <= y

RECURSIVE Ascending(_)
Ascending(S) == IF S = {} THEN <<>> ELSE <<Min(S)>> \o Ascending(S \ {Min(S)})

Range(s) == {s[i] : i \in 1..Len(s)}

\* The orders in which a page can list the messages S.
PageOrders(S) == {s \in [1..Cardinality(S) -> S] : Range(s) = S}

\* A line of Disgram.log: what kind of message it is and the message link
\* https://t.me/<ch>/<num> it contains (num = 0: the line holds no link).
Line(kind, ch, num) == [kind |-> kind, ch |-> ch, num |-> num]
NoLink(kind) == Line(kind, "", 0)

\* log_message with the file opened for writing instead of appending.
log_message_truncating(lg, entry, log_type) ==
    IF log_type \in {"error", "new_message", "status"} THEN <<entry>> ELSE lg

\* log_message: only error, new_message and status lines reach the file.
log_message(lg, entry, log_type) ==
    IF log_type \in {"error", "new_message", "status"} THEN Append(lg, entry) ELSE lg

\* Some line links to exactly this message of the channel.
is_message_logged_exact(lg, channel, number) ==
    \E i \in 1..Len(lg) : lg[i].ch = channel /\ lg[i].num = number

\* is_message_logged: some line links to a message of the channel whose
\* number is >= number.
is_message_logged(lg, channel, number) ==
    \E i \in 1..Len(lg) :
        /\ lg[i].num > 0
        /\ lg[i].ch = channel
        /\ lg[i].num >= number

\* ------------------------------------------------ webhook.py: sendMessage
\* One attempt of webhook.send ends "ok", raises a
\* requests.exceptions.RequestException ("req", the only kind sendMessage
\* catches) or raises anything else ("exc", which leaves sendMessage).
Outcomes == {"ok", "req", "exc"}

\* The post webhook.send delivers: a card (embed) or the fallback text post.
Card_described(num, text, image) ==
    [kind |-> "card", num |-> num, text |-> TRUE, image |-> image, author |-> TRUE]
Card(num, text, image) ==
    [kind |-> "card", num |-> num, text |-> text, image |-> image, author |-> TRUE]
Fallback(num) ==
    [kind |-> "fallback", num |-> num, text |-> FALSE, image |-> FALSE, author |-> TRUE]

NoDelivery ==
    [lines |-> <<>>, posts |-> <<>>, sleeps |-> <<>>, paused |-> FALSE,
     attempts |-> 0, result |-> "none"]

\* The body of the retry loop for one value of attempt (0-based, as in the
\* code); acc is what the earlier attempts have logged, posted and slept.
RECURSIVE SendAttempt(_, _, _, _, _, _, _, _)
SendAttempt(attempt, delay, ch, num, text, image, oc, acc) ==
    LET o == oc[attempt + 1]
        isCard == text \/ image
        before == IF isCard THEN <<Line("sending", ch, num)>>
                            ELSE <<NoLink("no_content")>>
        tried == [acc EXCEPT !.lines = @ \o before, !.attempts = attempt + 1]
    IN  IF o = "ok" THEN
            IF isCard
            THEN [tried EXCEPT !.posts = Append(@, Card(num, text, image)),
                               !.lines = Append(@, NoLink("sent_ok")),
                               !.paused = TRUE,
                               !.result = "sent"]
            ELSE [tried EXCEPT !.posts = Append(@, Fallback(num)),
                               !.result = "sent"]
        ELSE IF o = "req" THEN
            LET failed == [tried EXCEPT !.lines = Append(@, NoLink("send_error"))]
            IN  IF attempt < max_retries - 1
                THEN SendAttempt(attempt + 1, delay * 2, ch, num, text, image, oc,
                                 [failed EXCEPT !.sleeps = Append(@, delay)])
                ELSE [failed EXCEPT !.lines = Append(@, NoLink("send_giveup")),
                                    !.result = "exhausted"]
        ELSE [tried EXCEPT !.result = "raised"]

\* sendMessage with a first backoff delay of 1.
sendMessage_hasty(ch, num, text, image, oc) ==
    SendAttempt(0, 1, ch, num, text, image, oc, NoDelivery)

sendMessage(ch, num, text, image, oc) ==
    SendAttempt(0, retry_delay, ch, num, text, image, oc, NoDelivery)

\* Attempt outcomes: k failed attempts, then the outcome final.
After(k, final) == [a \in 1..max_retries |-> IF a <= k THEN "req" ELSE final]
AllOutcomes == {After(k, f) : k \in 0..max_retries, f \in Outcomes}

\* The standard output of a worker started at a shell is the terminal, not
\* a pipe: no number of lines is waiting in it.
Tty == -1

\* No worker process exists and the channel has published nothing.
NoCycle == [done |-> FALSE, loglen |-> 0, page |-> <<>>]
Fresh == [same |-> FALSE, posted |-> FALSE, first |-> 0]
NoWorker ==
    /\ window = {}
    /\ top = 0
    /\ pc = [w \in Workers |-> "off"]
    /\ last_processed_number = [w \in Workers |-> 0]
    /\ msg_log = [w \in Workers |-> {}]
    /\ msg_temp = [w \in Workers |-> <<>>]
    /\ page = [w \in Workers |-> <<>>]
    /\ idx = [w \in Workers |-> 1]
    /\ missing_number = [w \in Workers |-> 0]
    /\ cycles = 0
    /\ faults = 0
    /\ calls = <<>>
    /\ shown = {}
    /\ prev = [w \in Workers |-> NoCycle]
    /\ cur = [w \in Workers |-> Fresh]
WorkersOff ==
    /\ NoWorker
    /\ stdout = [w \in Workers |-> Tty]

\* ------------------------------------------------- main.py: the job table
JobNames == {"jobA", "jobB"}
Threads == {"sup", "api"}   \* the main thread and the FastAPI handler thread

\* An entry of telegramChannels: the link https://t.me/<name> (msg = 0), the
\* link https://t.me/<name>/<msg>, or the bare <name> (url = FALSE).
Channel(name) == [name |-> name, msg |-> 0, url |-> TRUE]
MessageLink(name, msg) == [name |-> name, msg |-> msg, url |-> TRUE]
BareName(name) == [name |-> name, msg |-> 0, url |-> FALSE]

\* extract_channel_name: the first path segment of a link, without the
\* https://t.me/ in front; anything else as it is.
extract_channel_name(channel_url) == BareName(channel_url.name)

\* Job (jobs.py); threadId and embedColor are "" where the code has None.
Job(webhookUrl, telegramChannels, threadId, embedColor) ==
    [webhookUrl |-> webhookUrl, telegramChannels |-> telegramChannels,
     threadId |-> threadId, embedColor |-> embedColor]
NoJob == Job("", <<>>, "", "")

\* ---- inputs
ChA == Channel("alpha")
ChB == Channel("beta")
LinkC == MessageLink("gamma", 7)

\* jobs.json when the supervisor starts, and the requests the API is sent.
StoredJobs == [j \in {"jobA"} |-> Job("hook1", <<ChA, ChB>>, "", "")]
CreateInputs == {[name |-> "jobB", job |-> Job("hook2", <<LinkC>>, "thread1", "89a7d9")],
                 [name |-> "jobA", job |-> Job("hook2", <<ChA>>, "", "")]}
UpdateInputs == {[webhookUrl |-> "hook2"]}

\* dict operations
Put(f, k, v) == [x \in DOMAIN f \cup {k} |-> IF x = k THEN v ELSE f[x]]
Drop(f, k) == [x \in DOMAIN f \ {k} |-> f[x]]
NoTable == [j \in {} |-> <<>>]

\* ---- processes
\* A Popen object and the process behind it. job, chan and mark are
\* history: the (job, channel) pair the process was spawned for, and, in a
\* sweep that restarts the fleet, "old" for a process from before the
\* restart and "new" for one start_bot_processes has spawned since.
NoProc == [alive |-> FALSE, job |-> "", chan |-> Channel(""), argv |-> <<>>, mark |-> ""]

\* subprocess.Popen([...]) as start_job_processes and the sweep call it: the
\* script and the destination depend on job.threadId.
Popen(job_name, channel_url, channel_param, mark) ==
    LET job == job_obj[job_name]
        script == IF job.threadId # "" THEN "threadhook.py" ELSE "webhook.py"
        dest == [url |-> job.webhookUrl, thread_id |-> job.threadId]
    IN  [alive |-> TRUE, job |-> job_name, chan |-> channel_url,
         argv |-> <<script, channel_param, dest, job.embedColor, job_name>>,
         mark |-> mark]

\* process.terminate() and wait / kill for every process of a list (lines
\* 206-214, 666-674): whichever way, each is gone when the loop moves on.
Terminate(lst) == [i \in 1..Len(lst) |-> [lst[i] EXCEPT !.alive = FALSE]]

\* The processes of a list that are alive, as they are once nothing refers
\* to the list any more.
RECURSIVE Orphaned(_)
Orphaned(lst) ==
    IF lst = <<>> THEN EmptyBag
    ELSE (IF Head(lst).alive THEN SetToBag({Head(lst)}) ELSE EmptyBag)
         (+) Orphaned(Tail(lst))

\* The entries of the table: (job name, position).
Tracked ==
    UNION {{<<j, i>> : i \in 1..Len(job_processes[j])} : j \in DOMAIN job_processes}

\* check_process_health(): alive_count over the whole table.
alive_count == Cardinality({e \in Tracked : job_processes[e[1]][e[2]].alive})

\* Popen succeeds while the machine has room for one more process.
CanSpawn ==
    alive_count + BagCardinality(orphans)
        + Cardinality({t \in Threads : th[t].new.alive}) < MaxProcs
\* Popen raises: for want of room, or for another reason (a fault).
SpawnFails ==
    /\ ~CanSpawn \/ sup_faults < MaxFaults
    /\ sup_faults' = IF CanSpawn THEN sup_faults + 1 ELSE sup_faults

\* Every index of a list from position i on, dead or not.
every_index(lst, i) == [k \in 1..(Len(lst) + 1 - i) |-> k + i - 2]

\* check_process_health(job_name): the dead indices, 0-based, in order.
RECURSIVE dead_indices(_, _)
dead_indices(lst, i) ==
    IF i > Len(lst) THEN <<>>
    ELSE (IF lst[i].alive THEN <<>> ELSE <<i - 1>>) \o dead_indices(lst, i + 1)

\* check_log_freshness: the file exists and is at most max_age_minutes old.
check_log_freshness == log # <<>> /\ age <= max_age_minutes

\* initialize_disgram_log: the links of all jobs that are not yet a line of
\* the file, each once, in the order of the jobs and their channels.
JobOrder == <<"jobA", "jobB">>
RECURSIVE AllChannels(_)
AllChannels(order) ==
    IF order = <<>> THEN <<>>
    ELSE (IF Head(order) \in jobs THEN job_obj[Head(order)].telegramChannels ELSE <<>>)
         \o AllChannels(Tail(order))
RECURSIVE new_links(_, _)
new_links(urls, seen) ==
    IF urls = <<>> THEN <<>>
    ELSE IF Head(urls) \in seen THEN new_links(Tail(urls), seen)
    ELSE <<Head(urls)>> \o new_links(Tail(urls), seen \cup {Head(urls)})
\* Lines 86-87: the entry is written as it is, on a line of its own. The
\* line of a link starts with https://t.me/ ("seed"); the line of a bare
\* name is the name ("name").
SeedLine(channel_url) ==
    Line(IF channel_url.url THEN "seed" ELSE "name", channel_url.name, channel_url.msg)
\* Lines 67-73: the lines of the file that start with https://t.me/.
existing_links ==
    {MessageLink(log[i].ch, log[i].num) : i \in {k \in 1..Len(log) : log[k].kind = "seed"}}
initialize_disgram_log ==
    LET links == new_links(AllChannels(JobOrder), existing_links)
    IN  log \o [i \in 1..Len(links) |-> SeedLine(links[i])]

\* _log_system(..., log_type="system"): one line of the registry in the file.
SystemLine == NoLink("system")

\* The local variables of a thread of the supervisor process.
Local(at) ==
    [pc |-> at,             \* where the thread is
     job |-> "",            \* job / job_name of the function it is in
     chs |-> <<>>,          \* the list a for loop over job.telegramChannels walks
     dead |-> <<>>,         \* dead_indices still to handle (0-based, as in the code)
     todo |-> {},           \* job names a loop over jobs still has to visit
     new |-> NoProc,        \* the process Popen has just returned
     ret |-> "",            \* where the function it is in returns to
     restarted |-> FALSE,   \* history: this sweep has run restart_all_processes
     kept |-> {},           \* history: entries this sweep has found alive beside a dead one
     noop |-> ""]           \* history: "start" / "stop" once such a call has returned at once

\* history marks
Marked(pr, m) == IF pr = NoProc THEN NoProc ELSE [pr EXCEPT !.mark = m]
MarkList(lst, m) == [i \in 1..Len(lst) |-> Marked(lst[i], m)]
MarkTable(tb, m) == [j \in DOMAIN tb |-> MarkList(tb[j], m)]
MarkBag(B, m) ==
    [r \in {Marked(x, m) : x \in BagToSet(B)} |->
        CopiesIn(Marked(r, ""), B) + CopiesIn(Marked(r, "old"), B)
            + CopiesIn(Marked(r, "new"), B)]

\* The supervisor has not been started.
SupOff ==
    /\ jobs = {}
    /\ job_obj = [j \in JobNames |-> NoJob]
    /\ job_processes = NoTable
    /\ orphans = EmptyBag
    /\ age = 0
    /\ th = [t \in Threads |-> Local("off")]
    /\ requests = 0
    /\ sup_faults = 0

\* ------------------------------------------------------------- SpecSend
\* sendMessage applied once to every combination of its inputs.
InitSend ==
    /\ dlv \in [num : 1..2, text : BOOLEAN, image : BOOLEAN, oc : AllOutcomes,
                done : {FALSE}, out : {NoDelivery}]
    /\ log = <<>>
    /\ WorkersOff
    /\ SupOff

Deliver ==
    /\ ~dlv.done
    /\ LET s == sendMessage(TG_CHANNEL, dlv.num, dlv.text, dlv.image, dlv.oc)
       IN  /\ dlv' = [dlv EXCEPT !.done = TRUE, !.out = s]
           /\ log' = log \o s.lines
    /\ UNCHANGED <<window, top, workerVars, histVars, stdout, supVars>>

NextSend == Deliver
SpecSend == InitSend /\ [][NextSend]_vars

\* ------------------------------------ webhook.py: scrapeTelegramMessageBox
NoScrape == [lines |-> <<>>, boxes |-> <<>>, sleeps |-> <<>>, result |-> "none"]

\* One attempt of requests.get; src is what the preview page lists. The
\* boxes come back in the order of the page.
RECURSIVE ScrapeAttempt(_, _, _, _, _)
ScrapeAttempt(attempt, delay, oc, src, acc) ==
    LET o == oc[attempt + 1]
    IN  IF o = "ok" THEN [acc EXCEPT !.boxes = src, !.result = "ok"]
        ELSE IF o = "req" THEN
            LET failed == [acc EXCEPT !.lines = Append(@, NoLink("scrape_error"))]
            IN  IF attempt < max_retries - 1
                THEN ScrapeAttempt(attempt + 1, delay * 2, oc, src,
                                   [failed EXCEPT !.sleeps = Append(@, delay)])
                ELSE [failed EXCEPT !.lines = Append(@, NoLink("scrape_giveup")),
                                    !.boxes = <<>>,
                                    !.result = "ok"]
        ELSE [acc EXCEPT !.result = "raised"]

\* scrapeTelegramMessageBox handing out the page whatever the attempts did.
scrapeTelegramMessageBox_anyway(oc, src) ==
    [ScrapeAttempt(0, retry_delay, oc, src, NoScrape) EXCEPT !.boxes = src]

scrapeTelegramMessageBox(oc, src) == ScrapeAttempt(0, retry_delay, oc, src, NoScrape)

\* ------------------------------------------------------ webhook.py: main
\* What getText / getImage extract from the box of message n: the four
\* combinations of text and image take turns along the channel.
MsgText(n) == (n % 4) \in {1, 3}
MsgImage(n) == (n % 4) \in {1, 2}

\* The outcomes the network takes while a worker runs.
ScrapeInputs == {After(0, "ok"), After(max_retries, "req"), After(0, "exc")}
SendInputs == {After(0, "ok"), After(max_retries, "req"), After(0, "exc")}

\* An outcome other than the plain success counts against MaxFaults.
Faulty(oc) == oc # After(0, "ok")
Inject(oc) ==
    /\ Faulty(oc) => faults < MaxFaults
    /\ faults' = IF Faulty(oc) THEN faults + 1 ELSE faults

current_number(w) == page[w][idx[w]]

\* The for loop moves to the next box, or the cycle goes on after the loop.
AfterBox(w) == IF idx[w] < Len(page[w]) THEN "box" ELSE "end"

\* History: one more sendMessage invocation by w, and whether it posted;
\* the first number of this run of main() after which line 216 is reached.
Called(w, n, ph, s) ==
    /\ calls' = Append(calls, [w |-> w, num |-> n, ph |-> ph, result |-> s.result,
                               posted |-> Len(s.posts), cycle |-> cycles])
    /\ cur' = [v \in Workers |->
                 IF v = w THEN [cur[v] EXCEPT !.posted = @ \/ s.posts # <<>>,
                                              !.first = IF ~ph /\ s.result # "raised" /\ @ = 0
                                                        THEN n ELSE @]
                 ELSE [cur[v] EXCEPT !.same = FALSE]]

\* History: w wrote to the log without calling sendMessage.
Wrote(w) == cur' = [v \in Workers |-> IF v = w THEN cur[v] ELSE [cur[v] EXCEPT !.same = FALSE]]

\* log_message, line 16: print(log_entry), for every line whatever its
\* type. Standard output is the terminal of a worker started at a shell
\* (Tty), or the pipe Popen(stdout=PIPE) made, which holds what nobody has
\* read: a print into a full pipe does not return. A step prints the lines
\* it writes to the file and `extra` lines that go to standard output only.
CanPrint(w) == stdout[w] < PipeCap
Prints(w, extra) ==
    stdout' = [stdout EXCEPT ![w] = IF @ = Tty THEN @
                                    ELSE @ + extra + Len(log') - Len(log)]

\* An exception that nothing catches: the process ends, nothing is logged.
Except_uncaught(w, lg, pg) ==
    /\ log' = lg
    /\ pc' = [pc EXCEPT ![w] = "off"]
    /\ prev' = [prev EXCEPT ![w] = [done |-> FALSE, loglen |-> Len(lg), page |-> pg]]

\* except Exception (main, line 223): the error is logged and the cycle is
\* over; msg_log keeps the links of the cycle before.
Except(w, lg, pg) ==
    /\ log' = log_message(lg, NoLink("cycle_error"), "error")
    /\ pc' = [pc EXCEPT ![w] = "cool"]
    /\ prev' = [prev EXCEPT ![w] = [done |-> FALSE, loglen |-> Len(log'), page |-> pg]]

\* python webhook.py <channel>: main() starts with nothing remembered.
Start(w) ==
    /\ pc[w] = "off"
    /\ CanPrint(w)
    /\ pc' = [pc EXCEPT ![w] = "scrape"]
    /\ last_processed_number' = [last_processed_number EXCEPT ![w] = 0]
    /\ msg_log' = [msg_log EXCEPT ![w] = {}]
    /\ UNCHANGED <<log, window, top, msg_temp, page, idx, missing_number, cycles,
                   faults, histVars, dlv, supVars>>
    /\ Prints(w, 2)

\* The process is terminated from outside (or crashes) at any point; what
\* it held in memory is gone.
Kill(w) ==
    /\ pc[w] # "off"
    /\ faults < MaxFaults
    /\ faults' = faults + 1
    /\ pc' = [pc EXCEPT ![w] = "off"]
    /\ last_processed_number' = [last_processed_number EXCEPT ![w] = 0]
    /\ msg_log' = [msg_log EXCEPT ![w] = {}]
    /\ msg_temp' = [msg_temp EXCEPT ![w] = <<>>]
    /\ page' = [page EXCEPT ![w] = <<>>]
    /\ idx' = [idx EXCEPT ![w] = 1]
    /\ missing_number' = [missing_number EXCEPT ![w] = 0]
    /\ prev' = [prev EXCEPT ![w] = IF pc[w] = "cool" THEN @ ELSE [@ EXCEPT !.done = FALSE]]
    /\ cur' = [cur EXCEPT ![w].first = 0]
    /\ UNCHANGED <<log, window, top, cycles, calls, shown, dlv, stdout, supVars>>

\* Lines 182-184: msg_temp = [] and the scrape of a page that lists its
\* messages in one of the given orders.
ScrapeFrom(w, orders) ==
    /\ pc[w] = "scrape"
    /\ cycles < MaxCycles
    /\ CanPrint(w)
    /\ \E oc \in ScrapeInputs, src \in orders :
         LET r == scrapeTelegramMessageBox(oc, src)
         IN  /\ Inject(oc)
             /\ msg_temp' = [msg_temp EXCEPT ![w] = <<>>]
             /\ page' = [page EXCEPT ![w] = r.boxes]
             /\ idx' = [idx EXCEPT ![w] = 1]
             /\ shown' = shown \cup Range(r.boxes)
             /\ cur' = [v \in Workers |->
                          IF v = w
                          THEN [same |-> /\ prev[w].done
                                         /\ prev[w].loglen = Len(log)
                                         /\ prev[w].page = r.boxes
                                         /\ r.lines = <<>>,
                                posted |-> FALSE,
                                first |-> cur[w].first]
                          ELSE IF r.lines = <<>> THEN cur[v]
                          ELSE [cur[v] EXCEPT !.same = FALSE]]
             /\ IF r.result = "raised"
                THEN Except(w, log \o r.lines, r.boxes)
                ELSE /\ log' = log \o r.lines
                     /\ pc' = [pc EXCEPT ![w] = IF r.boxes = <<>> THEN "end" ELSE "box"]
                     /\ UNCHANGED prev
             /\ Prints(w, 1 + Len(r.sleeps) + 1)
    /\ cycles' = cycles + 1
    /\ UNCHANGED <<window, top, last_processed_number, msg_log, missing_number, calls, dlv, supVars>>

\* The preview page of t.me lists the messages oldest first.
Scrape(w) == ScrapeFrom(w, {Ascending(window)})

\* A page in any order: the code does not sort what it gets.
ScrapeAnyOrder(w) == cycles < MaxPolls /\ ScrapeFrom(w, PageOrders(window))

\* Lines 185-201: the next box; a gap after last_processed_number starts
\* sendMissingMessages. Extracting the link, the author or the timestamp
\* from the box can raise.
\* Lines 199-201 without the test last_processed_number > 0.
Box_unknown_last(w) ==
    /\ pc[w] = "box"
    /\ IF current_number(w) > last_processed_number[w] + 1
       THEN /\ missing_number' = [missing_number EXCEPT ![w] = last_processed_number[w] + 1]
            /\ pc' = [pc EXCEPT ![w] = "missing"]
       ELSE /\ pc' = [pc EXCEPT ![w] = "check"]
            /\ UNCHANGED missing_number
    /\ UNCHANGED <<log, faults, prev, cur>>
    /\ UNCHANGED <<window, top, last_processed_number, msg_log, msg_temp, page,
                   idx, cycles, calls, shown, dlv, stdout, supVars>>

Box(w) ==
    /\ pc[w] = "box"
    /\ \/ /\ IF /\ last_processed_number[w] > 0
                /\ current_number(w) > last_processed_number[w] + 1
             THEN /\ missing_number' = [missing_number EXCEPT ![w] = last_processed_number[w] + 1]
                  /\ pc' = [pc EXCEPT ![w] = "missing"]
             ELSE /\ pc' = [pc EXCEPT ![w] = "check"]
                  /\ UNCHANGED missing_number
          /\ UNCHANGED <<log, faults, prev, cur>>
       \/ /\ faults < MaxFaults
          /\ CanPrint(w)
          /\ faults' = faults + 1
          /\ Except(w, log, page[w])
          /\ Wrote(w)
          /\ UNCHANGED missing_number
    /\ UNCHANGED <<window, top, last_processed_number, msg_log, msg_temp, page,
                   idx, cycles, calls, shown, dlv, supVars>>
    /\ Prints(w, 0)

\* sendMissingMessages, one iteration of its loop: the placeholder is
\* logged and sent without any look at the log.
sendMissingMessages(w) ==
    /\ pc[w] = "missing"
    /\ CanPrint(w)
    /\ \E oc \in SendInputs :
         LET n == missing_number[w]
             announced == log_message(log, Line("placeholder", TG_CHANNEL, n), "error")
             s == sendMessage(TG_CHANNEL, n, FALSE, FALSE, oc)
         IN  /\ Inject(oc)
             /\ Called(w, n, TRUE, s)
             /\ IF s.result = "raised"
                THEN /\ Except(w, announced \o s.lines, page[w])
                     /\ UNCHANGED missing_number
                ELSE /\ log' = announced \o s.lines
                     /\ IF n + 1 < current_number(w)
                        THEN /\ missing_number' = [missing_number EXCEPT ![w] = n + 1]
                             /\ UNCHANGED pc
                        ELSE /\ pc' = [pc EXCEPT ![w] = "check"]
                             /\ UNCHANGED missing_number
                     /\ UNCHANGED prev
    /\ UNCHANGED <<window, top, last_processed_number, msg_log, msg_temp, page, idx,
                   cycles, shown, dlv, supVars>>
    /\ Prints(w, 0)

\* Lines 203-216: a message the log already covers is skipped, and
\* last_processed_number stays as it is; for any other, "New message found"
\* is written, then the message is sent, and last_processed_number moves
\* whatever sendMessage returned.
Forward(w) ==
    /\ pc[w] = "check"
    /\ LET n == current_number(w)
           next ==
               /\ idx' = [idx EXCEPT ![w] = @ + 1]
               /\ pc' = [pc EXCEPT ![w] = AfterBox(w)]
               /\ UNCHANGED prev
       IN  IF is_message_logged(log, TG_CHANNEL, n)
           THEN /\ CanPrint(w)
                /\ next
                /\ UNCHANGED <<log, msg_temp, last_processed_number, calls, cur, faults>>
                /\ Prints(w, 1)
           ELSE IF n \notin msg_log[w]
           THEN \E oc \in SendInputs :
                  LET found == log_message(log, Line("found", TG_CHANNEL, n), "new_message")
                      s == sendMessage(TG_CHANNEL, n, MsgText(n), MsgImage(n), oc)
                  IN  /\ CanPrint(w)
                      /\ Inject(oc)
                      /\ Called(w, n, FALSE, s)
                      /\ IF s.result = "raised"
                         THEN /\ Except(w, found \o s.lines, page[w])
                              /\ UNCHANGED <<msg_temp, last_processed_number, idx>>
                         ELSE /\ log' = found \o s.lines
                              /\ msg_temp' = [msg_temp EXCEPT ![w] = @ \o <<n, n>>]
                              /\ last_processed_number' =
                                     [last_processed_number EXCEPT ![w] = n]
                              /\ next
                      /\ Prints(w, 0)
           ELSE /\ msg_temp' = [msg_temp EXCEPT ![w] = Append(@, n)]
                /\ last_processed_number' = [last_processed_number EXCEPT ![w] = n]
                /\ next
                /\ UNCHANGED <<log, calls, cur, faults, stdout>>
    /\ UNCHANGED <<window, top, msg_log, page, missing_number, cycles, shown, dlv, supVars>>

\* Lines 218-222: msg_log = msg_temp and the status line.
EndCycle(w) ==
    /\ pc[w] = "end"
    /\ CanPrint(w)
    /\ msg_log' = [msg_log EXCEPT ![w] = Range(msg_temp[w])]
    /\ log' = log_message(log, NoLink("status"), "status")
    /\ Wrote(w)
    /\ prev' = [prev EXCEPT ![w] = [done |-> TRUE, loglen |-> Len(log'), page |-> page[w]]]
    /\ pc' = [pc EXCEPT ![w] = "cool"]
    /\ UNCHANGED <<window, top, last_processed_number, msg_temp, page, idx,
                   missing_number, cycles, faults, calls, shown, dlv, supVars>>
    /\ Prints(w, 0)

\* Line 225: time.sleep(COOLDOWN), then the next cycle.
Cooldown(w) ==
    /\ pc[w] = "cool"
    /\ pc' = [pc EXCEPT ![w] = "scrape"]
    /\ UNCHANGED <<log, window, top, last_processed_number, msg_log, msg_temp, page,
                   idx, missing_number, cycles, faults, histVars, dlv, stdout, supVars>>

\* ---------------------------------------------------- the source channel
\* The page is read by Scrape alone, so the channel's changes are taken
\* where they can matter: while some worker is about to poll.
AboutToPoll == \E w \in Workers : pc[w] = "scrape"

\* The channel publishes a message; a number may be skipped (a message
\* deleted before any scrape saw it). The preview page lists the PageSize
\* most recent messages, so the oldest one leaves it when it is full.
Publish ==
    /\ AboutToPoll
    /\ \E n \in (top + 1)..MaxSeq :
         /\ n <= top + 2
         /\ window' = IF Cardinality(window) < PageSize
                      THEN window \cup {n}
                      ELSE (window \ {Min(window)}) \cup {n}
         /\ top' = n
    /\ UNCHANGED <<log, workerVars, histVars, dlv, stdout, supVars>>

\* ----------------------------------------------------------- SpecWorker
NoDlv == [num |-> 1, text |-> FALSE, image |-> FALSE, oc |-> After(0, "ok"),
          done |-> TRUE, out |-> NoDelivery]

InitWorker ==
    /\ log = <<>>
    /\ WorkersOff
    /\ SupOff
    /\ dlv = NoDlv

NextWorker ==
    \/ Publish
    \/ \E w \in Workers :
         \/ Start(w)
         \/ Kill(w)
         \/ Scrape(w)
         \/ Box(w)
         \/ sendMissingMessages(w)
         \/ Forward(w)
         \/ EndCycle(w)
         \/ Cooldown(w)

SpecWorker == InitWorker /\ [][NextWorker]_vars

\* time.sleep(COOLDOWN) returns: a worker that is not terminated leaves its
\* cooldown.
\* ------------------------------------------------------------- SpecPipe
\* The worker as the supervisor starts it: Popen(..., stdout=PIPE,
\* stderr=PIPE) (main.py 635-648, 744-755). main.py reads from no process's
\* stdout or stderr anywhere, so the pipe only fills.
InitPipe ==
    /\ log = <<>>
    /\ NoWorker
    /\ stdout = [w \in Workers |-> 0]
    /\ SupOff
    /\ dlv = NoDlv

\* The next statement of the worker calls log_message.
WillPrint(w) ==
    \/ pc[w] \in {"scrape", "missing", "end"}
    \/ /\ pc[w] = "check"
       /\ \/ is_message_logged(log, TG_CHANNEL, current_number(w))
          \/ current_number(w) \notin msg_log[w]

\* print(log_entry) (webhook.py 16) into the full pipe: the write does not
\* return until somebody reads, and nobody does.
Block(w) ==
    /\ WillPrint(w)
    /\ ~CanPrint(w)
    /\ pc' = [pc EXCEPT ![w] = "blocked"]
    /\ UNCHANGED <<log, window, top, last_processed_number, msg_log, msg_temp, page,
                   idx, missing_number, cycles, faults, histVars, dlv, stdout, supVars>>

NextPipe ==
    \/ Publish
    \/ \E w \in Workers :
         \/ Start(w)
         \/ Scrape(w)
         \/ Box(w)
         \/ sendMissingMessages(w)
         \/ Forward(w)
         \/ EndCycle(w)
         \/ Cooldown(w)
         \/ Block(w)

SpecPipe == InitPipe /\ [][NextPipe]_vars

SpecWorkerFair == SpecWorker /\ \A w \in Workers : WF_vars(Cooldown(w))

\* ------------------------------------------------------------- SpecPage
\* One worker process from its start on, never terminated, polling a page
\* that lists some messages of the channel, each time in any order.
Pages == {S \in SUBSET (1..MaxSeq) : S # {} /\ Cardinality(S) <= PageSize}

InitPage ==
    /\ log = <<>>
    /\ \E S \in Pages :
         /\ window = S
         /\ top = Max(S)
    /\ pc = [w \in Workers |-> "off"]
    /\ last_processed_number = [w \in Workers |-> 0]
    /\ msg_log = [w \in Workers |-> {}]
    /\ msg_temp = [w \in Workers |-> <<>>]
    /\ page = [w \in Workers |-> <<>>]
    /\ idx = [w \in Workers |-> 1]
    /\ missing_number = [w \in Workers |-> 0]
    /\ cycles = 0
    /\ faults = 0
    /\ calls = <<>>
    /\ shown = {}
    /\ prev = [w \in Workers |-> NoCycle]
    /\ cur = [w \in Workers |-> Fresh]
    /\ stdout = [w \in Workers |-> Tty]
    /\ SupOff
    /\ dlv = NoDlv

NextPage ==
    \/ \E w \in Workers :
         \/ Start(w)
         \/ ScrapeAnyOrder(w)
         \/ Box(w)
         \/ sendMissingMessages(w)
         \/ Forward(w)
         \/ EndCycle(w)
         \/ Cooldown(w)

SpecPage == InitPage /\ [][NextPage]_vars

\* ------------------------------------------------------------ SpecOrder
\* The worker over cycles and restarts of a page in any order: the polls
\* of SpecPage and one more, the channel publishing in between, and the
\* process killed and started again.
ScrapeReordered(w) == cycles <= MaxPolls /\ ScrapeFrom(w, PageOrders(window))

InitOrder == InitPage

NextOrder ==
    \/ Publish
    \/ \E w \in Workers :
         \/ Start(w)
         \/ Kill(w)
         \/ ScrapeReordered(w)
         \/ Box(w)
         \/ sendMissingMessages(w)
         \/ Forward(w)
         \/ EndCycle(w)
         \/ Cooldown(w)

SpecOrder == InitOrder /\ [][NextOrder]_vars

\* ================================================= main.py: the supervisor
\* The main thread dies of an exception its loop does not catch; the
\* process exits and takes the handler thread with it. What Popen had
\* returned to either thread runs on with no handle left.
Crashed == [t \in Threads |-> Local(IF t = "sup" THEN "crashed" ELSE "off")]
Crash ==
    /\ th' = Crashed
    /\ orphans' = orphans (+) Orphaned(<<th["sup"].new, th["api"].new>>)

\* ---- start_bot_processes (lines 679-695)
\* initialize_disgram_log, then jobs = job_manager.get_all_jobs().
start_bot_processes ==
    /\ th["sup"].pc = "start_bot"
    /\ log' = initialize_disgram_log
    /\ age' = IF log' # log THEN 0 ELSE age
    /\ th' = [th EXCEPT !["sup"].pc = "next_job", !["sup"].todo = jobs]
    /\ UNCHANGED <<relayVars, jobs, job_obj, job_processes, orphans, requests, sup_faults>>

\* for job in jobs.values(): start_job_processes(job). After the loop the
\* main thread is in its sleep; the first time, the API thread has been
\* started on the way (lines 710-711).
StartNextJob ==
    /\ th["sup"].pc = "next_job"
    /\ LET me == th["sup"]
           inOrder == {i \in 1..Len(JobOrder) : JobOrder[i] \in me.todo}
       IN  IF me.todo = {}
           THEN th' = [t \in Threads |->
                         IF t = "sup" THEN [me EXCEPT !.pc = "sleep", !.noop = ""]
                         ELSE IF th[t].pc = "off" THEN Local("idle") ELSE th[t]]
           ELSE LET j == JobOrder[Min(inOrder)]
                IN  th' = [th EXCEPT !["sup"] = [me EXCEPT !.pc = "sjp_check",
                                                           !.job = j,
                                                           !.ret = "next_job",
                                                           !.noop = "",
                                                           !.todo = @ \ {j}]]
    /\ UNCHANGED <<log, relayVars, jobs, job_obj, job_processes, orphans, age,
                   requests, sup_faults>>

\* ---- start_job_processes (lines 606-655), run by either thread
Return(me) ==
    [me EXCEPT !.pc = me.ret, !.job = "", !.chs = <<>>, !.new = NoProc, !.ret = ""]

\* start_job_processes without its first lines: the entry is made anew.
StartCheck_unchecked(t) ==
    /\ th[t].pc = "sjp_check"
    /\ th' = [th EXCEPT ![t].pc = "sjp_init"]
    /\ UNCHANGED <<log, relayVars, jobs, job_obj, job_processes, orphans, age,
                   requests, sup_faults>>

\* Lines 610-612: a job that has an entry is left alone.
StartCheck(t) ==
    /\ th[t].pc = "sjp_check"
    /\ th' = [th EXCEPT ![t] = IF th[t].job \in DOMAIN job_processes
                               THEN [Return(th[t]) EXCEPT !.noop = "start"]
                               ELSE [th[t] EXCEPT !.pc = "sjp_init"]]
    /\ UNCHANGED <<log, relayVars, jobs, job_obj, job_processes, orphans, age,
                   requests, sup_faults>>

\* Line 614: job_processes[job.jobName] = []; line 619 takes the list the
\* for loop walks.
StartInit(t) ==
    /\ th[t].pc = "sjp_init"
    /\ job_processes' = Put(job_processes, th[t].job, <<>>)
    /\ orphans' = IF th[t].job \in DOMAIN job_processes
                  THEN orphans (+) Orphaned(job_processes[th[t].job])
                  ELSE orphans
    /\ th' = [th EXCEPT ![t].pc = "sjp_spawn",
                        ![t].chs = job_obj[th[t].job].telegramChannels]
    /\ UNCHANGED <<log, relayVars, jobs, job_obj, age, requests, sup_faults>>

\* Lines 619-648: the next channel's Popen. A message link is passed whole,
\* a channel link as its name. An exception ends the function (line 654).
StartSpawn(t) ==
    /\ th[t].pc = "sjp_spawn"
    /\ LET me == th[t]
       IN  IF me.chs = <<>>
           THEN /\ th' = [th EXCEPT ![t] = Return(me)]
                /\ UNCHANGED sup_faults
           ELSE LET channel_url == Head(me.chs)
                    channel_param == IF channel_url.msg > 0 THEN channel_url
                                     ELSE extract_channel_name(channel_url)
                    mark == IF t = "sup" THEN "new" ELSE ""
                IN  \/ /\ CanSpawn
                       /\ th' = [th EXCEPT ![t].pc = "sjp_append",
                                           ![t].new = Popen(me.job, channel_url,
                                                            channel_param, mark)]
                       /\ UNCHANGED sup_faults
                    \/ /\ SpawnFails
                       /\ th' = [th EXCEPT ![t] = Return(me)]
    /\ UNCHANGED <<log, relayVars, jobs, job_obj, job_processes, orphans, age, requests>>

\* Line 650: job_processes[job.jobName].append(process); the KeyError of a
\* missing entry is caught at line 654 and ends the function.
StartAppend(t) ==
    /\ th[t].pc = "sjp_append"
    /\ LET me == th[t]
       IN  IF me.job \in DOMAIN job_processes
           THEN /\ job_processes' = [job_processes EXCEPT ![me.job] = Append(@, me.new)]
                /\ th' = [th EXCEPT ![t].pc = "sjp_spawn", ![t].new = NoProc,
                                    ![t].chs = Tail(@)]
                /\ UNCHANGED orphans
           ELSE /\ th' = [th EXCEPT ![t] = Return(me)]
                /\ orphans' = orphans (+) Orphaned(<<me.new>>)
                /\ UNCHANGED job_processes
    /\ UNCHANGED <<log, relayVars, jobs, job_obj, age, requests, sup_faults>>

\* ---- the main loop (lines 719-768)
\* time.sleep(30) is over; line 723 takes list(job_processes.keys()). The
\* marks of the sweep before are history no longer (history).
Wake ==
    /\ th["sup"].pc = "sleep"
    /\ th' = [t \in Threads |->
                IF t = "sup"
                THEN [th[t] EXCEPT !.pc = "sweep",
                                   !.todo = DOMAIN job_processes,
                                   !.restarted = FALSE,
                                   !.noop = ""]
                ELSE [th[t] EXCEPT !.new = Marked(@, ""), !.noop = ""]]
    /\ job_processes' = MarkTable(job_processes, "")
    /\ orphans' = MarkBag(orphans, "")
    /\ UNCHANGED <<log, relayVars, jobs, job_obj, age, requests, sup_faults>>

\* Lines 723-734: the next job name of the list. A job the registry no
\* longer has loses its entry; otherwise check_process_health(job_name).
SweepJob ==
    /\ th["sup"].pc = "sweep"
    /\ LET me == th["sup"]
       IN  IF me.todo = {}
           THEN /\ th' = [th EXCEPT !["sup"].pc = "zombie"]
                /\ UNCHANGED <<job_processes, orphans>>
           ELSE \E j \in me.todo :
                  IF j \notin jobs
                  THEN /\ job_processes' = Drop(job_processes, j)
                       /\ orphans' = IF j \in DOMAIN job_processes
                                     THEN orphans (+) Orphaned(job_processes[j])
                                     ELSE orphans
                       /\ th' = [th EXCEPT !["sup"].todo = @ \ {j}]
                  ELSE LET lst == IF j \in DOMAIN job_processes
                                  THEN job_processes[j] ELSE <<>>
                           dead == dead_indices(lst, 1)
                           alive == {[job |-> j, idx |-> i, proc |-> lst[i]] :
                                       i \in {k \in 1..Len(lst) : lst[k].alive}}
                       IN  /\ th' = [th EXCEPT !["sup"] =
                                  IF dead = <<>>
                                  THEN [me EXCEPT !.todo = @ \ {j}]
                                  ELSE [me EXCEPT !.todo = @ \ {j},
                                                  !.pc = "respawn",
                                                  !.job = j,
                                                  !.dead = dead,
                                                  !.kept = @ \cup alive]]
                           /\ UNCHANGED <<job_processes, orphans>>
    /\ UNCHANGED <<log, relayVars, jobs, job_obj, age, requests, sup_faults>>
\* Lines 736-756: the next dead index. The bounds are read from the table
\* and the job as they are now; the Popen is given the channel's name. A
\* missing entry (KeyError) or a failing Popen is caught by nothing.
Respawn ==
    /\ th["sup"].pc = "respawn"
    /\ LET me == th["sup"]
           dead_idx == Head(me.dead)
           job == job_obj[me.job]
       IN  IF me.dead = <<>>
           THEN /\ th' = [th EXCEPT !["sup"].pc = "sweep", !["sup"].job = ""]
                /\ UNCHANGED <<orphans, sup_faults>>
           ELSE IF me.job \notin DOMAIN job_processes
           THEN /\ Crash
                /\ UNCHANGED sup_faults
           ELSE IF /\ dead_idx < Len(job_processes[me.job])
                   /\ dead_idx < Len(job.telegramChannels)
           THEN LET channel == job.telegramChannels[dead_idx + 1]
                    channel_name == extract_channel_name(channel)
                IN  \/ /\ CanSpawn
                       /\ th' = [th EXCEPT !["sup"].pc = "assign",
                                           !["sup"].new = Popen(me.job, channel,
                                                                channel_name, "")]
                       /\ UNCHANGED <<orphans, sup_faults>>
                    \/ /\ SpawnFails
                       /\ Crash
           ELSE /\ th' = [th EXCEPT !["sup"].dead = Tail(@)]
                /\ UNCHANGED <<orphans, sup_faults>>
    /\ UNCHANGED <<log, relayVars, jobs, job_obj, job_processes, age, requests>>

\* Line 758: job_processes[job_name][dead_idx] = new_process.
Assign ==
    /\ th["sup"].pc = "assign"
    /\ LET me == th["sup"]
           dead_idx == Head(me.dead)
       IN  IF /\ me.job \in DOMAIN job_processes
              /\ dead_idx < Len(job_processes[me.job])
           THEN /\ job_processes' =
                       [job_processes EXCEPT ![me.job][dead_idx + 1] = me.new]
                /\ orphans' = orphans (+) Orphaned(<<job_processes[me.job][dead_idx + 1]>>)
                /\ th' = [th EXCEPT !["sup"].pc = "respawn", !["sup"].new = NoProc,
                                    !["sup"].dead = Tail(@)]
           ELSE /\ Crash
                /\ UNCHANGED job_processes
    /\ UNCHANGED <<log, relayVars, jobs, job_obj, age, requests, sup_faults>>

\* Lines 761-768: the zombie check.
Zombie ==
    /\ th["sup"].pc = "zombie"
    /\ th' = IF ~check_log_freshness /\ alive_count > 0
             THEN [th EXCEPT !["sup"].pc = "ra_term", !["sup"].restarted = TRUE]
             ELSE [th EXCEPT !["sup"].pc = "sleep", !["sup"].kept = {}]
    /\ UNCHANGED <<log, relayVars, jobs, job_obj, job_processes, orphans, age,
                   requests, sup_faults>>

\* ---- restart_all_processes (lines 198-223)
\* Lines 205-214: every tracked process that is alive is terminated. What
\* exists now is from before the restart (history).
RestartTerminate ==
    /\ th["sup"].pc = "ra_term"
    /\ job_processes' = [j \in DOMAIN job_processes |->
                            MarkList(Terminate(job_processes[j]), "old")]
    /\ orphans' = MarkBag(orphans, "old")
    /\ th' = [t \in Threads |->
                IF t = "sup" THEN [th[t] EXCEPT !.pc = "ra_clear"]
                ELSE [th[t] EXCEPT !.new = Marked(@, "old")]]
    /\ UNCHANGED <<log, relayVars, jobs, job_obj, age, requests, sup_faults>>

\* Lines 217-220: job_processes.clear(), then start_bot_processes().
RestartClear ==
    /\ th["sup"].pc = "ra_clear"
    /\ job_processes' = NoTable
    /\ orphans' = BagUnion({SetToBag({}), orphans}
                           \cup {Orphaned(job_processes[j]) : j \in DOMAIN job_processes})
    /\ th' = [th EXCEPT !["sup"].pc = "start_bot", !["sup"].kept = {}]
    /\ UNCHANGED <<log, relayVars, jobs, job_obj, age, requests, sup_faults>>

\* ---- the API handlers (lines 433-593), one request at a time
\* POST /job: job_manager.add_job (jobs.py 93-111), then
\* start_job_processes(job). A name the registry holds is refused.
create_job ==
    /\ th["api"].pc = "idle"
    /\ requests < MaxRequests
    /\ requests' = requests + 1
    /\ \E c \in CreateInputs :
         IF c.name \in jobs
         THEN UNCHANGED <<log, jobs, job_obj, age, th>>
         ELSE /\ job_obj[c.name] = NoJob
              /\ jobs' = jobs \cup {c.name}
              /\ job_obj' = [job_obj EXCEPT ![c.name] = c.job]
              /\ log' = Append(log, SystemLine)
              /\ age' = 0
              /\ th' = [th EXCEPT !["api"].pc = "sjp_check",
                                  !["api"].job = c.name,
                                  !["api"].ret = "idle",
                                  !["api"].noop = ""]
    /\ UNCHANGED <<relayVars, job_processes, orphans, sup_faults>>

\* job_manager.update_job (jobs.py 113-136): the Job object is changed in
\* place.
Updated(job, updates) ==
    [f \in DOMAIN job |-> IF f \in DOMAIN updates THEN updates[f] ELSE job[f]]

\* PATCH /job: the registry is updated, then stop_job_processes, get_job,
\* start_job_processes.
update_job ==
    /\ th["api"].pc = "idle"
    /\ requests < MaxRequests
    /\ requests' = requests + 1
    /\ \E job_name \in JobNames, updates \in UpdateInputs :
         IF job_name \notin jobs
         THEN UNCHANGED <<log, job_obj, age, th>>
         ELSE /\ job_obj' = [job_obj EXCEPT ![job_name] = Updated(@, updates)]
              /\ log' = Append(log, SystemLine)
              /\ age' = 0
              /\ th' = [th EXCEPT !["api"].pc = "stop",
                                  !["api"].job = job_name,
                                  !["api"].ret = "upd_start",
                                  !["api"].noop = ""]
    /\ UNCHANGED <<relayVars, jobs, job_processes, orphans, sup_faults>>

\* DELETE /job: stop_job_processes, then job_manager.delete_job.
delete_job ==
    /\ th["api"].pc = "idle"
    /\ requests < MaxRequests
    /\ requests' = requests + 1
    /\ \E job_name \in JobNames :
         th' = IF job_name \notin jobs THEN th
               ELSE [th EXCEPT !["api"].pc = "stop",
                               !["api"].job = job_name,
                               !["api"].ret = "del_reg",
                               !["api"].noop = ""]
    /\ UNCHANGED <<log, relayVars, jobs, job_obj, job_processes, orphans, age,
                   sup_faults>>

\* stop_job_processes without its first lines: a job without an entry gets
\* an empty one to walk and delete.
StopTerminate_unchecked ==
    /\ th["api"].pc = "stop"
    /\ th' = [th EXCEPT !["api"].pc = "stop_del"]
    /\ job_processes' = IF th["api"].job \in DOMAIN job_processes
                        THEN [job_processes EXCEPT ![th["api"].job] = Terminate(@)]
                        ELSE Put(job_processes, th["api"].job, <<>>)
    /\ UNCHANGED <<log, relayVars, jobs, job_obj, orphans, age, requests, sup_faults>>

\* stop_job_processes, lines 661-674: nothing to do without an entry;
\* otherwise every process of the list that is alive is terminated.
StopTerminate ==
    /\ th["api"].pc = "stop"
    /\ LET me == th["api"]
       IN  IF me.job \notin DOMAIN job_processes
           THEN /\ th' = [th EXCEPT !["api"].pc = me.ret, !["api"].ret = "",
                                    !["api"].noop = "stop"]
                /\ UNCHANGED job_processes
           ELSE /\ th' = [th EXCEPT !["api"].pc = "stop_del"]
                /\ job_processes' = [job_processes EXCEPT ![me.job] = Terminate(@)]
    /\ UNCHANGED <<log, relayVars, jobs, job_obj, orphans, age, requests, sup_faults>>

\* stop_job_processes, line 676: del job_processes[job_name]. The KeyError
\* of a missing entry ends the request (HTTP 500).
StopDelete ==
    /\ th["api"].pc = "stop_del"
    /\ LET me == th["api"]
       IN  IF me.job \in DOMAIN job_processes
           THEN /\ job_processes' = Drop(job_processes, me.job)
                /\ orphans' = orphans (+) Orphaned(job_processes[me.job])
                /\ th' = [th EXCEPT !["api"].pc = me.ret, !["api"].ret = ""]
           ELSE /\ th' = [th EXCEPT !["api"] = Local("idle")]
                /\ UNCHANGED <<job_processes, orphans>>
    /\ UNCHANGED <<log, relayVars, jobs, job_obj, age, requests, sup_faults>>

\* update_job, lines 543-545: job = get_job(job_name); if job:
\* start_job_processes(job).
UpdateStart ==
    /\ th["api"].pc = "upd_start"
    /\ th' = IF th["api"].job \in jobs
             THEN [th EXCEPT !["api"].pc = "sjp_check", !["api"].ret = "idle",
                             !["api"].noop = ""]
             ELSE [th EXCEPT !["api"] = Local("idle")]
    /\ UNCHANGED <<log, relayVars, jobs, job_obj, job_processes, orphans, age,
                   requests, sup_faults>>

\* delete_job, line 583: job_manager.delete_job (jobs.py 138-150).
DeleteFromRegistry ==
    /\ th["api"].pc = "del_reg"
    /\ LET job_name == th["api"].job
       IN  IF job_name \in jobs
           THEN /\ jobs' = jobs \ {job_name}
                /\ log' = Append(log, SystemLine)
                /\ age' = 0
           ELSE UNCHANGED <<jobs, log, age>>
    /\ th' = [th EXCEPT !["api"] = Local("idle")]
    /\ UNCHANGED <<relayVars, job_obj, job_processes, orphans, requests, sup_faults>>

\* ---- the worker processes and the clock
\* A worker process exits by itself. The supervisor learns of it from
\* process.poll() alone, so the exit is taken where it can matter: when the
\* main thread is about to poll the processes (lines 731 and 761).
AboutToPollProcesses == th["sup"].pc \in {"sweep", "zombie"}

Die ==
    /\ AboutToPollProcesses
    /\ sup_faults < MaxFaults
    /\ sup_faults' = sup_faults + 1
    /\ \/ \E e \in Tracked :
            /\ job_processes[e[1]][e[2]].alive
            /\ job_processes' = [job_processes EXCEPT ![e[1]][e[2]].alive = FALSE]
            /\ UNCHANGED orphans
       \/ \E pr \in BagToSet(orphans) :
            /\ orphans' = orphans (-) SetToBag({pr})
            /\ UNCHANGED job_processes
    /\ UNCHANGED <<log, relayVars, jobs, job_obj, age, th, requests>>

\* The age of the file is read by the zombie check alone, so the workers'
\* writes and the passing of time are taken where they can matter: when the
\* main thread is about to make that check.
AboutToCheck == th["sup"].pc = "zombie"

\* A worker process writes a line to Disgram.log. The lines of the workers
\* are SpecWorker's subject; here the write is the file's new modification
\* time.
WorkerWrites ==
    /\ AboutToCheck
    /\ alive_count > 0 \/ orphans # EmptyBag
    /\ age # 0
    /\ age' = 0
    /\ UNCHANGED <<log, relayVars, jobs, job_obj, job_processes, orphans, th,
                   requests, sup_faults>>

\* Time passes without a write. check_log_freshness only compares the age
\* with max_age_minutes, so the age moves to the next value that can tell:
\* the limit itself, then beyond it.
Tick ==
    /\ AboutToCheck
    /\ age <= max_age_minutes
    /\ age' = IF age < max_age_minutes THEN max_age_minutes ELSE max_age_minutes + 1
    /\ UNCHANGED <<log, relayVars, jobs, job_obj, job_processes, orphans, th,
                   requests, sup_faults>>

\* -------------------------------------------------------------- SpecSup
\* python main.py: JobManager has loaded jobs.json, job_processes = {},
\* and start_bot_processes() is about to run (line 708).
InitSup ==
    /\ log = <<>>
    /\ WorkersOff
    /\ dlv = NoDlv
    /\ jobs = DOMAIN StoredJobs
    /\ job_obj = [j \in JobNames |-> IF j \in DOMAIN StoredJobs THEN StoredJobs[j] ELSE NoJob]
    /\ job_processes = NoTable
    /\ orphans = EmptyBag
    /\ age = 0
    /\ th = [t \in Threads |-> Local(IF t = "sup" THEN "start_bot" ELSE "off")]
    /\ requests = 0
    /\ sup_faults = 0

NextSup ==
    \/ start_bot_processes
    \/ StartNextJob
    \/ \E t \in Threads :
         \/ StartCheck(t)
         \/ StartInit(t)
         \/ StartSpawn(t)
         \/ StartAppend(t)
    \/ Wake
    \/ SweepJob
    \/ Respawn
    \/ Assign
    \/ Zombie
    \/ RestartTerminate
    \/ RestartClear
    \/ create_job
    \/ update_job
    \/ delete_job
    \/ StopTerminate
    \/ StopDelete
    \/ UpdateStart
    \/ DeleteFromRegistry
    \/ Die
    \/ WorkerWrites
    \/ Tick

SpecSup == InitSup /\ [][NextSup]_vars

\* -------------------------------------------------------------- SpecLog
\* The supervisor with the workers' lines in the file. python main.py finds
\* no Disgram.log, or the one an earlier run left: the seed of the first
\* channel and a worker's error line.
EarlierLogs == {<<>>, <<Line("seed", ChA.name, ChA.msg), NoLink("cycle_error")>>}
WorkerLines(lg) == {i \in 1..Len(lg) : lg[i].kind = "status"}

InitLog ==
    /\ log \in EarlierLogs
    /\ WorkersOff
    /\ dlv = NoDlv
    /\ jobs = DOMAIN StoredJobs
    /\ job_obj = [j \in JobNames |-> IF j \in DOMAIN StoredJobs THEN StoredJobs[j] ELSE NoJob]
    /\ job_processes = NoTable
    /\ orphans = EmptyBag
    /\ age = 0
    /\ th = [t \in Threads |-> Local(IF t = "sup" THEN "start_bot" ELSE "off")]
    /\ requests = 0
    /\ sup_faults = 0

\* A worker process ends a cycle: log_message(..., log_type="status")
\* (webhook.py 222) appends its line to the file.
WorkerLogs ==
    /\ AboutToCheck
    /\ alive_count > 0 \/ orphans # EmptyBag
    /\ Cardinality(WorkerLines(log)) < MaxLines
    /\ log' = log_message(log, NoLink("status"), "status")
    /\ age' = 0
    /\ UNCHANGED <<relayVars, jobs, job_obj, job_processes, orphans, th,
                   requests, sup_faults>>

NextLog ==
    \/ start_bot_processes
    \/ StartNextJob
    \/ \E t \in Threads :
         \/ StartCheck(t)
         \/ StartInit(t)
         \/ StartSpawn(t)
         \/ StartAppend(t)
    \/ Wake
    \/ SweepJob
    \/ Respawn
    \/ Assign
    \/ Zombie
    \/ RestartTerminate
    \/ RestartClear
    \/ create_job
    \/ update_job
    \/ delete_job
    \/ StopTerminate
    \/ StopDelete
    \/ UpdateStart
    \/ DeleteFromRegistry
    \/ Die
    \/ WorkerLogs
    \/ Tick

SpecLog == InitLog /\ [][NextLog]_vars

\* ------------------------------------------------------------ SpecEntry
\* The start of a worker process. webhook.py, lines 227-233: with exactly
\* one argument the script runs main(); otherwise it prints its usage and
\* exits with status 1. argv is sys.argv, the script's name first.
webhook_entry(argv) == IF Len(argv) # 2 THEN "exit" ELSE "main"
\* threadhook.py is not among the sources; it is taken to accept the four
\* parameters the supervisor passes.
threadhook_entry(argv) == IF Len(argv) # 5 THEN "exit" ELSE "main"
entry(argv) ==
    IF argv[1] = "webhook.py" THEN webhook_entry(argv) ELSE threadhook_entry(argv)

\* The process has run the first lines of its script (history in mark).
Ran(pr) ==
    IF entry(pr.argv) = "main" THEN [pr EXCEPT !.mark = "main"]
    ELSE [pr EXCEPT !.alive = FALSE, !.mark = "exit"]

\* The jobs whose workers are started, and `python webhook.py alpha` typed
\* at a shell.
EntryJobs ==
    {Job(u, c, t, e) : u \in {"hook1", "hook2"}, c \in {<<ChA>>, <<ChA, ChB>>, <<LinkC>>},
                       t \in {"", "thread1"}, e \in {"", "89a7d9"}}
ByHand ==
    [alive |-> TRUE, job |-> "", chan |-> ChA,
     argv |-> <<"webhook.py", extract_channel_name(ChA)>>, mark |-> ""]

\* start_job_processes(jobA) has returned: one process per channel, none
\* of which has run yet.
InitEntry ==
    /\ log = <<>>
    /\ WorkersOff
    /\ dlv = NoDlv
    /\ jobs = {"jobA"}
    /\ job_obj \in {[j \in JobNames |-> IF j = "jobA" THEN J ELSE NoJob] : J \in EntryJobs}
    /\ job_processes =
          [j \in {"jobA"} |->
             [i \in 1..Len(job_obj[j].telegramChannels) |->
                LET channel_url == job_obj[j].telegramChannels[i]
                IN  Popen(j, channel_url,
                          IF channel_url.msg > 0 THEN channel_url
                          ELSE extract_channel_name(channel_url), "")]]
    /\ orphans \in {EmptyBag, SetToBag({ByHand})}
    /\ age = 0
    /\ th = [t \in Threads |-> Local("off")]
    /\ requests = 0
    /\ sup_faults = 0

\* A process the supervisor started runs the first lines of its script.
EntryTracked ==
    /\ \E e \in Tracked :
         /\ job_processes[e[1]][e[2]].mark = ""
         /\ job_processes' = [job_processes EXCEPT ![e[1]][e[2]] = Ran(@)]
    /\ UNCHANGED <<log, relayVars, jobs, job_obj, orphans, age, th, requests, sup_faults>>

\* The process started at the shell does.
EntryByHand ==
    /\ \E pr \in BagToSet(orphans) :
         /\ pr.mark = ""
         /\ orphans' = (orphans (-) SetToBag({pr})) (+) SetToBag({Ran(pr)})
    /\ UNCHANGED <<log, relayVars, jobs, job_obj, job_processes, age, th, requests,
                   sup_faults>>

NextEntry == EntryTracked \/ EntryByHand
SpecEntry == InitEntry /\ [][NextEntry]_vars

\* ------------------------------------------------------------- SpecSeed
\* python main.py with a registry nobody changes: no API request is
\* served. jobs.json names one job, whose channels are links, bare names
\* or both; the log goes stale and the zombie check restarts the workers,
\* again and again. Time passes while the file is at most MaxSeeded lines
\* long.
SeedJobs ==
    {Job("hook1", chs, "", "") :
        chs \in {<<ChA, ChB>>, <<LinkC, ChA>>, <<ChA, ChA>>,
                 <<BareName("alpha"), ChB>>, <<BareName("alpha"), BareName("alpha")>>}}

InitSeed ==
    /\ log \in EarlierLogs
    /\ WorkersOff
    /\ dlv = NoDlv
    /\ jobs = {"jobA"}
    /\ job_obj \in {[j \in JobNames |-> IF j = "jobA" THEN J ELSE NoJob] : J \in SeedJobs}
    /\ job_processes = NoTable
    /\ orphans = EmptyBag
    /\ age = 0
    /\ th = [t \in Threads |-> Local(IF t = "sup" THEN "start_bot" ELSE "off")]
    /\ requests = 0
    /\ sup_faults = 0

SeedTick == Len(log) <= MaxSeeded /\ Tick

NextSeed ==
    \/ start_bot_processes
    \/ StartNextJob
    \/ \E t \in Threads :
         \/ StartCheck(t)
         \/ StartInit(t)
         \/ StartSpawn(t)
         \/ StartAppend(t)
    \/ Wake
    \/ SweepJob
    \/ Respawn
    \/ Assign
    \/ Zombie
    \/ RestartTerminate
    \/ RestartClear
    \/ Die
    \/ WorkerLogs
    \/ SeedTick

SpecSeed == InitSeed /\ [][NextSeed]_vars

\* -------------------------------------------------------------- SpecReg
\* jobs.py: the one JobManager of the process, called by several threads
\* at once (the API handlers are plain functions, which the server runs on
\* a pool of threads). Each caller makes one call.
Callers == 1..MaxCallers

\* The jobs add_job is called with: the two of CreateInputs, a second job
\* for the free name, and two jobs the validation refuses.
AddInputs ==
    CreateInputs \cup
    {[name |-> "jobB", job |-> Job("hook1", <<ChA>>, "", "")],
     [name |-> "jobB", job |-> Job("", <<LinkC>>, "", "")],
     [name |-> "jobB", job |-> Job("hook1", <<>>, "", "")]}

\* The local variables of a thread inside a method of JobManager.
RegLocal(at) ==
    [pc |-> at,             \* where the thread is
     op |-> "",             \* the method it has called
     name |-> "",           \* job.jobName / job_name
     job |-> NoJob,         \* add_job: job
     updates |-> << >>,     \* update_job: updates
     holds |-> 0,           \* how many times it holds self.lock (an RLock)
     ret |-> "",            \* the message returned; "ok" with True
     before |-> << >>,      \* history: the registry when it took the lock
     after |-> << >>,       \* history: the registry when it returned
     waited |-> FALSE]      \* history: another thread took the lock it was waiting for

Registry == <<jobs, job_obj>>

\* A lock that never makes a thread wait.
CanAcquire_unlocked(c) == TRUE

\* threading.RLock: free, or held by the thread that asks.
CanAcquire(c) == \A d \in Callers \ {c} : th[d].holds = 0

\* A method of JobManager is called; the thread arrives at `with self.lock`.
Call(c, op, name, job, updates) ==
    /\ th[c].pc = "idle"
    /\ th' = [th EXCEPT ![c].pc = "lock", ![c].op = op, ![c].name = name,
                        ![c].job = job, ![c].updates = updates]
    /\ requests' = requests + 1
    /\ UNCHANGED <<log, relayVars, jobs, job_obj, job_processes, orphans, age, sup_faults>>

add_job_called(c) == \E a \in AddInputs : Call(c, "add_job", a.name, a.job, << >>)
update_job_called(c) ==
    \E job_name \in JobNames, updates \in UpdateInputs :
        Call(c, "update_job", job_name, NoJob, updates)
delete_job_called(c) ==
    \E job_name \in JobNames : Call(c, "delete_job", job_name, NoJob, << >>)

\* `with self.lock:` of add_job, update_job and delete_job.
Acquire(c) ==
    /\ th[c].pc = "lock"
    /\ CanAcquire(c)
    /\ th' = [d \in Callers |->
                IF d = c
                THEN [th[c] EXCEPT !.holds = 1, !.before = Registry,
                                   !.pc = CASE th[c].op = "add_job" -> "add_check"
                                            [] th[c].op = "update_job" -> "upd_check"
                                            [] OTHER -> "del_check"]
                ELSE IF th[d].pc = "lock" THEN [th[d] EXCEPT !.waited = TRUE]
                ELSE th[d]]
    /\ UNCHANGED <<log, relayVars, jobs, job_obj, job_processes, orphans, age, requests,
                   sup_faults>>

\* `return False, message`: the lock is released on the way out.
Returned(c, message) ==
    [th EXCEPT ![c].pc = "returned", ![c].ret = message, ![c].holds = 0,
               ![c].after = Registry']

\* add_job, lines 99-106: the name is looked up, the job validated.
AddCheck(c) ==
    /\ th[c].pc = "add_check"
    /\ UNCHANGED <<log, relayVars, jobs, job_obj, job_processes, orphans, age, requests,
                   sup_faults>>
    /\ th' = IF th[c].name \in jobs THEN Returned(c, "already exists")
             ELSE IF th[c].job.webhookUrl = "" THEN Returned(c, "Webhook URL is required")
             ELSE IF Len(th[c].job.telegramChannels) = 0
                  THEN Returned(c, "At least one Telegram channel is required")
             ELSE [th EXCEPT ![c].pc = "add_insert"]

\* add_job, line 108: self.jobs[job.jobName] = job.
AddInsert(c) ==
    /\ th[c].pc = "add_insert"
    /\ jobs' = jobs \cup {th[c].name}
    /\ job_obj' = [job_obj EXCEPT ![th[c].name] = th[c].job]
    /\ th' = [th EXCEPT ![c].pc = "save"]
    /\ UNCHANGED <<log, relayVars, job_processes, orphans, age, requests, sup_faults>>

\* update_job, lines 119-120.
UpdateCheck(c) ==
    /\ th[c].pc = "upd_check"
    /\ UNCHANGED <<log, relayVars, jobs, job_obj, job_processes, orphans, age, requests,
                   sup_faults>>
    /\ th' = IF th[c].name \notin jobs THEN Returned(c, "not found")
             ELSE [th EXCEPT ![c].pc = "upd_apply"]

\* update_job, lines 122-132: the fields given are set on the Job object.
UpdateApply(c) ==
    /\ th[c].pc = "upd_apply"
    /\ job_obj' = [job_obj EXCEPT ![th[c].name] = Updated(@, th[c].updates)]
    /\ th' = [th EXCEPT ![c].pc = "save"]
    /\ UNCHANGED <<log, relayVars, jobs, job_processes, orphans, age, requests, sup_faults>>

\* delete_job, lines 144-145.
DeleteCheck(c) ==
    /\ th[c].pc = "del_check"
    /\ UNCHANGED <<log, relayVars, jobs, job_obj, job_processes, orphans, age, requests,
                   sup_faults>>
    /\ th' = IF th[c].name \notin jobs THEN Returned(c, "not found")
             ELSE [th EXCEPT ![c].pc = "del_remove"]

\* delete_job, line 147: del self.jobs[job_name].
DeleteRemove(c) ==
    /\ th[c].pc = "del_remove"
    /\ jobs' = jobs \ {th[c].name}
    /\ job_obj' = [job_obj EXCEPT ![th[c].name] = NoJob]
    /\ th' = [th EXCEPT ![c].pc = "save"]
    /\ UNCHANGED <<log, relayVars, job_processes, orphans, age, requests, sup_faults>>

\* _save_jobs: the lock is taken again by the thread that holds it, and
\* jobs.json written (nothing reads the file again while the process
\* runs). A write that fails is caught and leaves an error line in
\* Disgram.log; "Saved ..." is printed only.
save_jobs(c) ==
    /\ th[c].pc = "save"
    /\ CanAcquire(c)
    /\ th' = [th EXCEPT ![c].pc = "log"]
    /\ \/ UNCHANGED <<log, age, sup_faults>>
       \/ /\ sup_faults < MaxFaults
          /\ sup_faults' = sup_faults + 1
          /\ log' = Append(log, NoLink("save_error"))
          /\ age' = 0
    /\ UNCHANGED <<relayVars, jobs, job_obj, job_processes, orphans, requests>>

\* The last two lines of add_job, update_job and delete_job: the system
\* line is written to Disgram.log and (True, message) returned.
ReturnTrue(c) ==
    /\ th[c].pc = "log"
    /\ log' = Append(log, SystemLine)
    /\ age' = 0
    /\ UNCHANGED <<relayVars, jobs, job_obj, job_processes, orphans, requests, sup_faults>>
    /\ th' = Returned(c, "ok")

\* job_manager as constructed from jobs.json; no thread has called yet.
InitReg ==
    /\ log = <<>>
    /\ WorkersOff
    /\ dlv = NoDlv
    /\ jobs = DOMAIN StoredJobs
    /\ job_obj = [j \in JobNames |-> IF j \in DOMAIN StoredJobs THEN StoredJobs[j] ELSE NoJob]
    /\ job_processes = NoTable
    /\ orphans = EmptyBag
    /\ age = 0
    /\ th = [c \in Callers |-> RegLocal("idle")]
    /\ requests = 0
    /\ sup_faults = 0

NextReg ==
    \E c \in Callers :
        \/ add_job_called(c)
        \/ update_job_called(c)
        \/ delete_job_called(c)
        \/ Acquire(c)
        \/ AddCheck(c)
        \/ AddInsert(c)
        \/ UpdateCheck(c)
        \/ UpdateApply(c)
        \/ DeleteCheck(c)
        \/ DeleteRemove(c)
        \/ save_jobs(c)
        \/ ReturnTrue(c)

SpecReg == InitReg /\ [][NextReg]_vars


\* =============================================================== claims
\* ---- history read by the claims
LinkLines(n) == {i \in 1..Len(log) : log[i].ch = TG_CHANNEL /\ log[i].num = n}
\* The lines that enter a message into the log: "New message found" for a
\* scraped message, "Sending placeholder for missing message" for a gap.
Entries(n) == {i \in LinkLines(n) : log[i].kind \in {"found", "placeholder"}}
CallsFor(n) == {i \in 1..Len(calls) : calls[i].num = n}
Posted(n) == \E i \in CallsFor(n) : calls[i].posted > 0
\* The log holds the link and the destination got the post.
DeliveredInLog(n) == LinkLines(n) # {} /\ Posted(n)
Completed(w) == pc[w] = "cool" /\ prev[w].done

\* C1 (as claimed; the code violates it): once a message link is in the
\* Delivery Log as delivered, no step of any worker invokes sendMessage for
\* that link again.
C1_NeverSentAgain ==
    [][\A n \in 1..MaxSeq :
          DeliveredInLog(n) => Cardinality(CallsFor(n))' = Cardinality(CallsFor(n))]_vars

\* C2 (as claimed; the code violates it): no message link is entered into the
\* Delivery Log more than once. Only the lines that enter a message are
\* counted, so the "Sending message to Discord" line that follows "New
\* message found" for the same delivery is not taken as a second appearance;
\* counting every line with the link fails all the sooner.
C2_LinkLoggedOnce ==
    \A n \in 1..MaxSeq : Cardinality(Entries(n)) <= 1

\* C3 (as claimed; the code violates it): when the scrapes have shown N, N+1
\* and N+3 and never N+2, then after a completed cycle whose page listed N+3
\* the log holds exactly one entry for N+2, a placeholder, and it precedes
\* the entries for N+3.
C3_GapFilledOnce ==
    \A w \in Workers : \A n \in 1..(MaxSeq - 3) :
        ( /\ Completed(w)
          /\ (n + 3) \in Range(page[w])
          /\ {n, n + 1, n + 3} \subseteq shown
          /\ (n + 2) \notin shown )
        => /\ Cardinality(Entries(n + 2)) = 1
           /\ \A i \in Entries(n + 2) :
                /\ log[i].kind = "placeholder"
                /\ Entries(n + 3) # {}
                /\ \A j \in Entries(n + 3) : i < j

\* C4 (as claimed; the code violates it): a message whose every delivery
\* attempt failed is not marked in the log, so the next completed cycle that
\* lists it again calls sendMessage for it again.
C4_FailedSendRetried ==
    \A w \in Workers : \A i \in 1..Len(calls) :
        ( /\ calls[i].result = "exhausted"
          /\ ~Posted(calls[i].num)
          /\ calls[i].cycle < cycles
          /\ Completed(w)
          /\ calls[i].num \in Range(page[w]) )
        => \E j \in CallsFor(calls[i].num) : calls[j].cycle = cycles

\* C5 (as claimed; the code violates it): a cycle that runs against the log
\* and the page the previous completed cycle left makes no post.
C5_RerunPostsNothing ==
    \A w \in Workers : cur[w].same => ~cur[w].posted

\* C6 (as claimed; the code violates it): whenever sendMessage ends without
\* a post for a scraped message, whatever the error, the same step sets
\* last_processed_number to the message's number and the for loop goes on.
C6_RejectedStillAdvances ==
    [][\A w \in Workers :
          ( /\ Len(calls') = Len(calls) + 1
            /\ calls'[Len(calls')].w = w
            /\ ~calls'[Len(calls')].ph
            /\ calls'[Len(calls')].result \in {"exhausted", "raised"} )
          => /\ last_processed_number'[w] = calls'[Len(calls')].num
             /\ idx'[w] = idx[w] + 1
             /\ pc'[w] \in {"box", "end"}]_vars

\* C7: a delivery that succeeds makes exactly one post: a card with text and
\* image, a card with the image and the author but no text, a card with the
\* text and no image, or, with neither, the fallback post linking to the
\* message.
C7_OnePostPerCase ==
    (dlv.done /\ dlv.out.result = "sent") =>
        /\ Len(dlv.out.posts) = 1
        /\ LET p == dlv.out.posts[1]
           IN  /\ p.num = dlv.num
               /\ p.author
               /\ (dlv.text \/ dlv.image) =>
                      (p.kind = "card" /\ p.text = dlv.text /\ p.image = dlv.image)
               /\ (~dlv.text /\ ~dlv.image) => p.kind = "fallback"

\* C7 witness: an image without text was delivered at the second attempt.
C7_Witness ==
    /\ dlv.done
    /\ dlv.out.result = "sent"
    /\ dlv.image /\ ~dlv.text
    /\ dlv.out.attempts = 2

\* ---- the supervisor's claims
\* The processes alive that were spawned for channel c of job j: entries of
\* the table, processes Popen has returned and no list holds yet, and
\* processes no handle refers to any more.
LiveFor(j, c) ==
    LET serves(pr) == pr.alive /\ pr.job = j /\ pr.chan = c
    IN  Cardinality({e \in Tracked : serves(job_processes[e[1]][e[2]])})
          + Cardinality({t \in Threads : serves(th[t].new)})
          + BagCardinality([pr \in {x \in BagToSet(orphans) : serves(x)} |-> orphans[pr]])
ChannelsOf(j) == Range(job_obj[j].telegramChannels)

\* C8 (as claimed; the code violates it): in every reachable state at most
\* one live worker process exists for each (job, channel) pair.
C8_OneLivePerPair ==
    \A j \in JobNames : \A c \in ChannelsOf(j) : LiveFor(j, c) <= 1

\* A step of the main thread, and the part of the sweep that replaces dead
\* processes (lines 723-758).
SupStep == th'["sup"] # th["sup"]
InRespawnPass == th["sup"].pc \in {"sweep", "respawn", "assign"}
HasEntry(tb, k) == k.job \in DOMAIN tb /\ k.idx <= Len(tb[k.job])

\* C9 (as claimed; the code violates it): from the health check of a job
\* with a dead and an alive process to the end of the same sweep, with no
\* API request at all, the alive entry stays the process it was, at its
\* index, not terminated by the supervisor.
C9_AliveEntryKept ==
    \A k \in th["sup"].kept :
        requests = 0 =>
            /\ HasEntry(job_processes, k)
            /\ [job_processes[k.job][k.idx] EXCEPT !.alive = TRUE] = k.proc

\* C9 (amended): the respawn pass of a sweep leaves every entry it found
\* alive beside a dead one as it is (same process, same index, still
\* running) and puts the new process at the index it found dead; so does a
\* zombie check that finds the log fresh or no tracked process alive. Only
\* the restart of a zombie check that finds the log stale goes further.
C9_RespawnPassKeepsAlive ==
    [][SupStep =>
         /\ InRespawnPass =>
              \A k \in th["sup"].kept :
                  HasEntry(job_processes, k) =>
                      /\ HasEntry(job_processes', k)
                      /\ job_processes'[k.job][k.idx] = job_processes[k.job][k.idx]
         /\ (th["sup"].pc = "assign" /\ th'["sup"].pc = "respawn") =>
              /\ job_processes'[th["sup"].job][Head(th["sup"].dead) + 1] = th["sup"].new
              /\ th["sup"].new.alive
              /\ ~job_processes[th["sup"].job][Head(th["sup"].dead) + 1].alive
                     \/ requests > 0
         /\ (th["sup"].pc = "zombie" /\ (check_log_freshness \/ alive_count = 0)) =>
              /\ job_processes' = job_processes
              /\ th'["sup"].pc = "sleep"]_vars

\* C9 witness: with no API request, the sweep found jobA's first process
\* dead and its second alive, has put a new process at the first index, and
\* the second entry is the process it was.
C9_Witness ==
    /\ requests = 0
    /\ th["sup"].pc = "respawn"
    /\ th["sup"].job = "jobA"
    /\ th["sup"].dead = <<>>
    /\ Len(job_processes["jobA"]) = 2
    /\ job_processes["jobA"][1].alive
    /\ job_processes["jobA"][1].chan = ChA
    /\ th["sup"].kept = {[job |-> "jobA", idx |-> 2, proc |-> job_processes["jobA"][2]]}
    /\ job_processes["jobA"][2].alive

\* C10 (as claimed; the code violates it): when a sweep has found the log
\* stale with a tracked process alive, it has restarted the fleet by its
\* end, and then, even if no Popen has failed and no worker has exited by
\* itself, every job of the registry has one process per channel, spawned by
\* this restart, and no process from before the restart is alive.
C10_RestartRespawnsOnce ==
    (th["sup"].pc = "sleep" /\ th["sup"].restarted /\ sup_faults = 0) =>
        /\ \A j \in jobs :
             /\ j \in DOMAIN job_processes
             /\ Len(job_processes[j]) = Len(job_obj[j].telegramChannels)
             /\ \A i \in 1..Len(job_processes[j]) :
                  /\ job_processes[j][i].mark = "new"
                  /\ job_processes[j][i].chan = job_obj[j].telegramChannels[i]
             /\ \A c \in ChannelsOf(j) : LiveFor(j, c) <= 1
        /\ \A pr \in BagToSet(orphans) : pr.mark # "old"
        /\ th["api"].new.mark # "old"

\* ---- the worker's claims, continued
\* C11: within one worker process lifetime last_processed_number never
\* decreases, in whatever order the page lists its messages and whatever
\* the sends return or raise. (A step that ends the process is the end of
\* the lifetime.)
C11_LastNeverDecreases ==
    [][\A w \in Workers :
          pc'[w] # "off" => last_processed_number'[w] >= last_processed_number[w]]_vars

\* C11 witness: the page listed a message after one with a higher number,
\* the worker has gone past both, and last_processed_number is the higher.
C11_Witness ==
    \E w \in Workers :
        /\ Len(page[w]) >= 2
        /\ page[w][1] > page[w][2]
        /\ idx[w] > 2
        /\ last_processed_number[w] = page[w][1]

\* The step ends the cycle of w before the end of the for loop.
CycleAborted(w) == pc[w] \in {"scrape", "box", "missing", "check"} /\ pc'[w] \notin {"scrape", "box", "missing", "check", "end"}
LastLine(lg) == lg[Len(lg)]

\* C12: a worker never ends on its own: a cycle that does not reach its end
\* (an error in the scrape, in the extraction, in the placeholders or in a
\* send) ends in the handler of the loop, which writes the error to the log
\* and goes to the cooldown; only a termination from outside ends the
\* process; and a worker in its cooldown begins the next cycle.
C12_ErrorsCaughtAtLoop ==
    /\ [][\A w \in Workers :
            /\ (pc[w] # "off" /\ pc'[w] = "off") => Kill(w)
            /\ CycleAborted(w) /\ ~Kill(w) =>
                 /\ pc'[w] = "cool"
                 /\ Len(log') > Len(log)
                 /\ LastLine(log') = NoLink("cycle_error")
                 /\ last_processed_number'[w] = last_processed_number[w]]_vars
    /\ \A w \in Workers : (pc[w] = "cool") ~> (pc[w] \in {"scrape", "off"})

\* C12 witness: a cycle of a worker that had sent a message ended in the
\* handler, and the same process is at the scrape of its next cycle.
C12_Witness ==
    \E w \in Workers :
        /\ pc[w] = "scrape"
        /\ last_processed_number[w] > 0
        /\ ~prev[w].done
        /\ prev[w].loglen = Len(log)
        /\ Len(log) > 0
        /\ LastLine(log) = NoLink("cycle_error")

\* ---- start_job_processes and stop_job_processes
\* Thread t leaves the given place in this step, the process still running.
Leaves(t, at) == th[t].pc = at /\ th'[t].pc # at /\ th'["sup"].pc # "crashed"
\* All processes alive that were spawned for job j, wherever they are.
LiveOf(j) ==
    Cardinality({e \in Tracked : job_processes[e[1]][e[2]].alive /\ job_processes[e[1]][e[2]].job = j})
      + Cardinality({t \in Threads : th[t].new.alive /\ th[t].new.job = j})
      + BagCardinality([pr \in {x \in BagToSet(orphans) : x.job = j} |-> orphans[pr]])

\* C13: start_job_processes called for a job that has an entry in the table
\* returns at once: no process is spawned, and the table (and every
\* process) is as it was.
C13_StartSkipsTrackedJob ==
    [][\A t \in Threads :
          (Leaves(t, "sjp_check") /\ th[t].job \in DOMAIN job_processes) =>
              /\ job_processes' = job_processes
              /\ orphans' = orphans
              /\ th'[t].pc = th[t].ret
              /\ th'[t].new = NoProc
              /\ sup_faults' = sup_faults]_vars

\* C13 witness: the main thread, restarting the fleet, called
\* start_job_processes for a job the API thread had just given an entry, and
\* returned at once; the processes of the job are the API thread's.
C13_Witness ==
    /\ th["sup"].noop = "start"
    /\ th["sup"].restarted
    /\ th["sup"].pc = "next_job"
    /\ "jobA" \in DOMAIN job_processes
    /\ \A i \in 1..Len(job_processes["jobA"]) : job_processes["jobA"][i].mark = ""

\* C14 (as claimed; the code violates it): when stop_job_processes returns,
\* even if no Popen has failed and no worker has exited by itself, no
\* process of the entry it has removed is alive, the job has no entry, and
\* the entries of the other jobs are as they were.
C14_StopLeavesNoneAlive ==
    [][(Leaves("api", "stop_del") /\ th'["api"].pc = th["api"].ret /\ sup_faults = 0) =>
          LET j == th["api"].job
          IN  /\ j \notin DOMAIN job_processes'
              /\ \A i \in 1..Len(job_processes[j]) : ~job_processes[j][i].alive
              /\ \A k \in DOMAIN job_processes \ {j} :
                   k \in DOMAIN job_processes' /\ job_processes'[k] = job_processes[k]]_vars

\* C15: stop_job_processes called for a job without an entry returns at
\* once, signals no process and leaves the table as it was; and a call that
\* went through leaves the job without an entry, so that a second call is
\* this case.
C15_StopIdempotent ==
    [][/\ (Leaves("api", "stop") /\ th["api"].job \notin DOMAIN job_processes) =>
            /\ job_processes' = job_processes
            /\ orphans' = orphans
            /\ th'["api"].pc = th["api"].ret
            /\ \A t \in Threads : th'[t].new = th[t].new
       /\ (Leaves("api", "stop_del") /\ th'["api"].pc = th["api"].ret) =>
            th["api"].job \notin DOMAIN job_processes']_vars

\* C15 witness: an update's stop_job_processes found no entry for the job
\* (a restart of the fleet had cleared the table), returned at once, and
\* the handler is about to start the job.
C15_Witness ==
    /\ th["api"].noop = "stop"
    /\ th["api"].pc = "upd_start"
    /\ th["api"].job \notin DOMAIN job_processes
    /\ th["sup"].restarted

\* C16 (as claimed; the code violates it): once a deletion has completed,
\* no process spawned for the deleted job is alive, whatever the main
\* thread was doing meanwhile, even if no Popen has failed and no worker
\* has exited by itself.
C16_DeletedJobHasNoWorker ==
    \A j \in JobNames :
        (j \notin jobs /\ job_obj[j] # NoJob /\ th["api"].pc = "idle" /\ sup_faults = 0)
            => LiveOf(j) = 0

\* C17 (as claimed; the code violates it): when an update returns, with no
\* Popen failed and no worker gone by itself, the job has one tracked
\* process per channel, each spawned with the updated job's parameters, and
\* no other process of the job is alive.
C17_UpdateRespawnsAll ==
    [][\A j \in DOMAIN StoredJobs :
          ( /\ th["api"].job = j
            /\ th["api"].pc \in {"sjp_check", "sjp_spawn", "sjp_append"}
            /\ th'["api"].pc = "idle"
            /\ th'["sup"].pc # "crashed"
            /\ sup_faults' = 0 )
          => /\ j \in DOMAIN job_processes'
             /\ Len(job_processes'[j]) = Len(job_obj[j].telegramChannels)
             /\ \A i \in 1..Len(job_processes'[j]) :
                  LET pr == job_processes'[j][i]
                      ch == job_obj[j].telegramChannels[i]
                  IN  /\ pr.chan = ch
                      /\ pr.argv[3] = [url |-> job_obj[j].webhookUrl,
                                       thread_id |-> job_obj[j].threadId]
                      /\ pr.argv[4] = job_obj[j].embedColor
             /\ LiveOf(j)' <= Len(job_obj[j].telegramChannels)]_vars

\* C18: the Delivery Log is append-only. In every step of the supervisor, of
\* the registry and of a worker (start-up seeding, the registry's audit
\* lines, a worker's lines) the file before the step is a prefix of the file
\* after it: no line is removed, changed or moved.
IsPrefix(s, t) == Len(s) <= Len(t) /\ SubSeq(t, 1, Len(s)) = s
C18_LogAppendOnly == [][IsPrefix(log, log')]_vars

\* An earlier run's file has been seeded with the channel it lacked, a
\* worker has written its line and the registry has written an audit line.
C18_Witness ==
    /\ Len(log) >= 5
    /\ SubSeq(log, 1, 2) \in EarlierLogs
    /\ log[3] = Line("seed", ChB.name, ChB.msg)
    /\ \E i, k \in 4..Len(log) : log[i] = NoLink("status") /\ log[k] = SystemLine

\* C19 (as claimed; the code violates it): a placeholder is forwarded only
\* if the log holds no entry of the channel with an equal or greater number:
\* whenever a step calls sendMessage for a placeholder, is_message_logged
\* is false for its number on the log as it was before the step.
C19_PlaceholderPassesLogCheck ==
    [][\A w \in Workers :
          ( /\ Len(calls') = Len(calls) + 1
            /\ calls'[Len(calls')].w = w
            /\ calls'[Len(calls')].ph )
          => ~is_message_logged(log, TG_CHANNEL, calls'[Len(calls')].num)]_vars

\* C20 (as claimed; the code violates it): within one run of a worker,
\* after each completed cycle every integer from the first number the worker
\* processed up to last_processed_number has exactly one entry of the
\* channel in the log, a scraped message's or a placeholder's.
C20_RangeCoveredOnce ==
    \A w \in Workers :
        (Completed(w) /\ cur[w].first > 0)
        => \A n \in cur[w].first..last_processed_number[w] :
              Cardinality(Entries(n)) = 1

\* C21 (as claimed; the code violates it): every sendMessage call that ends
\* in a successful post has appended an entry that records the delivery (a
\* line written once the post is made), and every call that exhausts its
\* retries has appended the failure entry; for cards and for the fallback
\* post, which is also what a placeholder is sent as.
C21_DeliveryLogged ==
    dlv.done =>
        /\ dlv.out.result = "sent" =>
              \E i \in 1..Len(dlv.out.lines) : dlv.out.lines[i].kind = "sent_ok"
        /\ dlv.out.result = "exhausted" =>
              dlv.out.lines[Len(dlv.out.lines)].kind = "send_giveup"

\* C22 (as claimed; the code violates it): the zombie check of a sweep
\* starts the restart of all processes only when every tracked process is
\* alive (alive count equals total count), at least one process is alive,
\* and the log file exists and is older than max_age_minutes.
C22_RestartOnlyWhenAllAlive ==
    [][(th["sup"].pc = "zombie" /\ th'["sup"].pc = "ra_term")
         => /\ alive_count = Cardinality(Tracked)
            /\ alive_count > 0
            /\ log # <<>>
            /\ age > max_age_minutes]_vars

\* The parameters start_job_processes passes for channel i (1-based) of
\* job j as the registry holds it.
StartParams(j, i) ==
    LET channel_url == job_obj[j].telegramChannels[i]
    IN  Popen(j, channel_url,
              IF channel_url.msg > 0 THEN channel_url
              ELSE extract_channel_name(channel_url), "").argv

\* C23 (as claimed; the code violates it): the process the liveness sweep
\* spawns for the dead entry at index i is started with exactly the
\* parameters start_job_processes passes for channel i of the job (the full
\* link for a single message, the same destination, colour and job name),
\* and the sweep stores it at index i.
C23_RespawnSameParameters ==
    [][/\ (th["sup"].pc = "respawn" /\ th'["sup"].pc = "assign")
          => th'["sup"].new.argv = StartParams(th["sup"].job, Head(th["sup"].dead) + 1)
       /\ (th["sup"].pc = "assign" /\ th'["sup"].pc = "respawn")
          => job_processes'[th["sup"].job][Head(th["sup"].dead) + 1] = th["sup"].new]_vars

\* Neither thread is inside start_job_processes, stop_job_processes, the
\* sweep or a restart: the main loop sleeps and no request is being served.
AtRest == th["sup"].pc = "sleep" /\ th["api"].pc = "idle"

\* C24 (as claimed; the code violates it): whenever the supervisor is at
\* rest, each job of the process table has exactly one tracked process per
\* channel of the job's registry record, the process at index i spawned for
\* channel i; after spawn errors and after updates as well.
C24_OneEntryPerChannel ==
    AtRest =>
        \A j \in DOMAIN job_processes \cap jobs :
            /\ Len(job_processes[j]) = Len(job_obj[j].telegramChannels)
            /\ \A i \in 1..Len(job_processes[j]) :
                  /\ job_processes[j][i].job = j
                  /\ job_processes[j][i].chan = job_obj[j].telegramChannels[i]

\* C25 (as claimed; the code violates it): in every reachable state every
\* live worker process the supervisor has spawned is referenced by the
\* process table (or is the one a thread is about to store): no entry is
\* removed or overwritten while its process is alive, so no live process is
\* left without a handle.
C25_NoUntrackedWorker == orphans = EmptyBag

\* C26: for one message sendMessage makes at most 5 attempts and stops at
\* the first that succeeds; it waits 2, 4, 8 and 16 time units after the 1st
\* to 4th failed attempts; after a 5th failed attempt it logs the permanent
\* failure and returns without another wait.
Backoff == <<2, 4, 8, 16>>
FailedBefore(oc, k) == \A a \in 1..(k - 1) : oc[a] = "req"
C26_RetryPolicy ==
    dlv.done =>
        LET out == dlv.out
            k == out.attempts
        IN  /\ k \in 1..5
            /\ FailedBefore(dlv.oc, k)
            /\ out.result = "sent" <=> dlv.oc[k] = "ok"
            /\ Len(out.posts) = (IF out.result = "sent" THEN 1 ELSE 0)
            /\ out.result = "exhausted" <=> (k = 5 /\ dlv.oc[5] = "req")
            /\ out.sleeps = SubSeq(Backoff, 1, IF dlv.oc[k] = "req" THEN 4 ELSE k - 1)
            /\ out.result = "exhausted" =>
                  out.lines[Len(out.lines)] = NoLink("send_giveup")

\* All five attempts failed: four waits, then the permanent failure.
C26_Witness ==
    /\ dlv.done
    /\ dlv.out.result = "exhausted"
    /\ dlv.out.attempts = 5
    /\ dlv.out.sleeps = Backoff
    /\ dlv.out.posts = <<>>

\* C27: when all 5 fetch attempts of a cycle fail, the fetch yields no
\* messages: the cycle makes no sendMessage call, leaves
\* last_processed_number as it was, and the worker goes on to its cooldown,
\* from where the next cycle starts.
FetchGaveUp(w) ==
    /\ pc[w] = "scrape"
    /\ Len(log') > Len(log)
    /\ LastLine(log') = NoLink("scrape_giveup")
C27_FailedFetchIsEmptyCycle ==
    [][\A w \in Workers :
          /\ FetchGaveUp(w)
               => /\ page'[w] = <<>>
                  /\ pc'[w] = "end"
                  /\ calls' = calls
                  /\ last_processed_number'[w] = last_processed_number[w]
          /\ (pc[w] = "end" /\ page[w] = <<>> /\ pc'[w] \notin {"end", "off"})
               => /\ pc'[w] = "cool"
                  /\ calls' = calls
                  /\ last_processed_number'[w] = last_processed_number[w]
          /\ (pc[w] = "cool" /\ pc'[w] \notin {"cool", "off"}) => pc'[w] = "scrape"]_vars

\* A worker that has forwarded messages ends a cycle whose fetch gave up,
\* although the page lists messages.
C27_Witness ==
    \E w \in Workers :
        /\ pc[w] = "cool"
        /\ prev[w].done
        /\ page[w] = <<>>
        /\ window # {}
        /\ last_processed_number[w] > 0
        /\ Len(log) >= 2
        /\ log[Len(log) - 1] = NoLink("scrape_giveup")

\* C28: while last_processed_number is 0 a worker sends no placeholder; once
\* it is known, a record whose number exceeds it by more than 1 causes one
\* sendMessage call for a placeholder of each missing integer in between, in
\* ascending order, all made before the record is looked at and sent.
NewCall(w, ph) ==
    /\ Len(calls') = Len(calls) + 1
    /\ calls'[Len(calls')].w = w
    /\ calls'[Len(calls')].ph = ph
Gap(w) == last_processed_number[w] > 0 /\ current_number(w) > last_processed_number[w] + 1
C28_PlaceholdersFillGap ==
    [][\A w \in Workers :
          /\ NewCall(w, TRUE)
               => /\ pc[w] = "missing"
                  /\ last_processed_number[w] > 0
                  /\ calls'[Len(calls')].num > last_processed_number[w]
                  /\ calls'[Len(calls')].num < current_number(w)
          /\ (pc[w] = "box" /\ pc'[w] = "check") => ~Gap(w)
          /\ (pc[w] = "missing" /\ pc'[w] = "check")
               => LET g == current_number(w) - last_processed_number[w] - 1
                  IN  /\ Len(calls') >= g
                      /\ \A k \in 1..g :
                            LET c == calls'[Len(calls') - g + k]
                            IN  /\ c.w = w
                                /\ c.ph
                                /\ c.cycle = cycles
                                /\ c.num = last_processed_number[w] + k
          /\ NewCall(w, FALSE)
               => /\ pc[w] = "check"
                  /\ calls'[Len(calls')].num = current_number(w)]_vars

\* The placeholders of a gap of two have been sent, in order, and the
\* record after the gap is about to be looked at.
C28_Witness ==
    \E w \in Workers :
        /\ pc[w] = "check"
        /\ current_number(w) = last_processed_number[w] + 3
        /\ Len(calls) >= 2
        /\ calls[Len(calls) - 1].ph /\ calls[Len(calls) - 1].num = last_processed_number[w] + 1
        /\ calls[Len(calls)].ph /\ calls[Len(calls)].num = last_processed_number[w] + 2

\* C29 (as claimed; the code violates it): a worker process started with
\* the four positional parameters the supervisor passes (channel or message
\* link, destination, colour or empty, job name) enters its polling loop
\* and does not exit on its own.
C29_StartedWorkerRuns ==
    \A e \in Tracked :
        LET pr == job_processes[e[1]][e[2]]
        IN  (Len(pr.argv) = 5 /\ pr.mark # "") => (pr.alive /\ pr.mark = "main")

C31_ControlLoopNeverStops == th["sup"].pc # "crashed"

\* ---- history read by the claims on the registry
ValidJob(job) == job.webhookUrl # "" /\ Len(job.telegramChannels) > 0
AddersOf(n) == {c \in Callers : th[c].op = "add_job" /\ th[c].name = n}
RemoversOf(n) == {c \in Callers : th[c].op = "delete_job" /\ th[c].name = n}
Succeeded(c) == th[c].pc = "returned" /\ th[c].ret = "ok"
Failed(c) == th[c].pc = "returned" /\ th[c].ret # "ok"

\* C32: registry mutations are serialized. At most one thread is inside a
\* mutation at a time; when several callers have called add_job with valid
\* jobs for one name that was free (and nobody deletes), exactly one has
\* succeeded and every other has failed with "already exists"; and a call
\* of add_job, update_job or delete_job that failed returned with the
\* registry as it was when the call took the lock.
C32_MutationsSerialized ==
    /\ Cardinality({c \in Callers : th[c].holds > 0}) <= 1
    /\ \A n \in JobNames :
         (/\ Cardinality(AddersOf(n)) >= 2
          /\ n \notin DOMAIN StoredJobs
          /\ RemoversOf(n) = {}
          /\ \A c \in AddersOf(n) : th[c].pc = "returned" /\ ValidJob(th[c].job))
         => \E c \in AddersOf(n) :
               /\ Succeeded(c)
               /\ \A d \in AddersOf(n) \ {c} : Failed(d) /\ th[d].ret = "already exists"
    /\ \A c \in Callers : Failed(c) => th[c].after = th[c].before

\* Every caller has called add_job for the free name with a valid job, two
\* of them waited for the lock while another held it, and all have returned.
C32_Witness ==
    /\ AddersOf("jobB") = Callers
    /\ \A c \in Callers : th[c].pc = "returned" /\ ValidJob(th[c].job)
    /\ Cardinality({c \in Callers : Failed(c) /\ th[c].waited}) >= 2
    /\ \E c \in Callers : Succeeded(c) /\ job_obj["jobB"] = th[c].job

\* ---- history read by the claim on the order of the log
Found(k) == log[k].kind = "found" /\ log[k].ch = TG_CHANNEL
Scraped(i) == ~calls[i].ph

\* C33: with one worker at a time on the channel, the numbers of the "New
\* message found" lines are strictly increasing in log order, across
\* cycles and restarts and whatever the order of the page: every such line
\* has a number above that of every earlier line of the log that links to
\* the channel, and sendMessage is invoked for a scraped message only with
\* such a line.
C33_AnnouncedNumbersIncrease ==
    /\ \A k \in 1..Len(log) :
         Found(k) =>
            \A i \in 1..(k - 1) :
                (log[i].ch = TG_CHANNEL /\ log[i].num > 0) => log[i].num < log[k].num
    /\ \A n \in 1..MaxSeq :
         Cardinality({i \in CallsFor(n) : Scraped(i)})
            = Cardinality({k \in LinkLines(n) : Found(k)})

\* The worker was killed and started again, and in its second poll the
\* page lists a message below one the log already announces; the worker
\* has gone past it without a line or a send for it.
C33_Witness ==
    \E w \in Workers :
        /\ faults > 0
        /\ cycles = 2
        /\ pc[w] \in {"box", "end"}
        /\ idx[w] >= 2
        /\ \E k \in 1..Len(log) :
              /\ Found(k)
              /\ page[w][idx[w] - 1] < log[k].num
              /\ LinkLines(page[w][idx[w] - 1]) = {}
              /\ CallsFor(page[w][idx[w] - 1]) = {}

\* ---- history read by the claim on seeding
Configured == Range(AllChannels(JobOrder))
SeedLinesOf(channel_url) == {i \in 1..Len(log) : log[i] = SeedLine(channel_url)}

\* C34 (as claimed; the code violates it): seeding is idempotent. With a
\* registry that does not change, after any number of invocations of
\* initialize_disgram_log the log holds at most one seed line for each
\* configured channel entry.
C34_OneSeedLinePerEntry ==
    \A channel_url \in Configured : Cardinality(SeedLinesOf(channel_url)) <= 1

====
